---------------------------- MODULE Spec2Model ----------------------------
(***************************************************************************)
(* A model of pkg/compact/compact.go of Thanos: the meta Syncer, its       *)
(* garbage collection, the DefaultGrouper, the per-group compaction        *)
(* (Group.Compact / Group.compact) and the BucketCompactor's pass loop.    *)
(*                                                                         *)
(* Each component has a specification of its own over the one set of       *)
(* variables of the module; a component's specification holds the other    *)
(* components' variables at their idle values.                             *)
(*   SpecSync    concurrent Syncer.SyncMetas calls over the single-flight  *)
(*   SpecGC      Syncer.GarbageCollect                                     *)
(*   SpecGrouper DefaultGrouper.Groups / Group.AppendMeta                  *)
(*   SpecGroup   Group.Compact on one group                                *)
(*   SpecBC      BucketCompactor.Compact: workers, sender, passes          *)
(***************************************************************************)
EXTENDS Integers, Sequences, FiniteSets, TLC

(***************************************************************************)
(* Bounds of the model.                                                    *)
(***************************************************************************)
\* number of concurrent SyncMetas callers
NCallers == 2

(***************************************************************************)
(* Small helpers.                                                          *)
(***************************************************************************)
Range(s) == {s[i] : i \in DOMAIN s}

\* the sequences over S without repetition
RECURSIVE Arrangements(_)
Arrangements(S) ==
    {<<>>} \cup UNION {{<<x>> \o t : t \in Arrangements(S \ {x})} : x \in S}

(***************************************************************************)
(* Errors.  A Go error value is modelled by the chain of its wrappers,     *)
(* outermost first:                                                        *)
(*   "wrap"   errors.Wrap / errors.Wrapf (has a Cause() method)            *)
(*   "halt"   HaltError        "retry"  RetryError                         *)
(*   "i347"   Issue347Error    "ooo"    OutOfOrderChunksError              *)
(*   "multi"  errutil.NonNilMultiRootError (its members in .members)       *)
(*   "plain"  any other error value (errors.New, fmt.Errorf, ctx.Err())    *)
(* HaltError, RetryError, Issue347Error and OutOfOrderChunksError have no  *)
(* Cause() method, so errors.Cause stops at them.                          *)
(***************************************************************************)
NoErr == [layers |-> <<>>, id |-> 0, members |-> <<>>]

Layer(t, msg) == [t |-> t, msg |-> msg]

NewErr(msg) == [layers |-> <<Layer("plain", msg)>>, id |-> 0, members |-> <<>>]

\* errors.Wrap(nil, ...) is nil
Wrap(e, msg) ==
    IF e = NoErr THEN NoErr
    ELSE [e EXCEPT !.layers = <<Layer("wrap", msg)>> \o @]

MultiErrFirstOnly(ms) ==
    [layers |-> <<Layer("multi", "")>>, id |-> 0, members |-> <<Head(ms)>>]

MultiErr(ms) == [layers |-> <<Layer("multi", "")>>, id |-> 0, members |-> ms]

RECURSIVE StripWraps(_)
StripWraps(ls) ==
    IF ls # <<>> /\ Head(ls).t = "wrap" THEN StripWraps(Tail(ls)) ELSE ls

\* errors.Cause: follows Cause() while the value has one
Cause(e) == [e EXCEPT !.layers = StripWraps(@)]

\* the dynamic type of errors.Cause(e)
CauseType(e) ==
    LET ls == StripWraps(e.layers) IN IF ls = <<>> THEN "nil" ELSE Head(ls).t

halt(e) == [e EXCEPT !.layers = <<Layer("halt", "")>> \o @]

\* an IsHaltError that wants every member of a multi-error to be a halt error
IsHaltErrorAllMembers(e) ==
    IF CauseType(e) = "multi"
    THEN \A i \in DOMAIN e.members : CauseType(e.members[i]) = "halt"
    ELSE CauseType(e) = "halt"

IsHaltError(e) ==
    IF CauseType(e) = "multi"
    THEN \E i \in DOMAIN e.members : CauseType(e.members[i]) = "halt"
    ELSE CauseType(e) = "halt"

\* a retry that hands the error back unmarked
retryUnmarked(e) == e

\* a retry that marks halt errors too
retryAlwaysMarks(e) == [e EXCEPT !.layers = <<Layer("retry", "")>> \o @]

retry(e) ==
    IF IsHaltError(e) THEN e
    ELSE [e EXCEPT !.layers = <<Layer("retry", "")>> \o @]

IsRetryErrorAnyMember(e) ==
    IF CauseType(e) = "multi"
    THEN \E i \in DOMAIN e.members : CauseType(e.members[i]) = "retry"
    ELSE CauseType(e) = "retry"

IsRetryError(e) ==
    IF CauseType(e) = "multi"
    THEN \A i \in DOMAIN e.members : CauseType(e.members[i]) = "retry"
    ELSE CauseType(e) = "retry"

issue347Error(e, brokenBlock) ==
    [e EXCEPT !.layers = <<Layer("i347", "")>> \o @, !.id = brokenBlock]

outOfOrderChunkError(e, brokenBlock) ==
    [e EXCEPT !.layers = <<Layer("ooo", "")>> \o @, !.id = brokenBlock]

IsIssue347Error(e) == CauseType(e) = "i347"

IsOutOfOrderChunkError(e) == CauseType(e) = "ooo"

\* the messages of the wrappers and of the base error, outermost first
Messages(e) == {e.layers[i].msg : i \in DOMAIN e.layers}

(***************************************************************************)
(* Block metas.  A Meta is the descriptor of one block; time ranges are    *)
(* half open, [minTime, maxTime).                                          *)
(***************************************************************************)
Meta(id, mint, maxt, lbls, res, samples, srcs) ==
    [ulid |-> id, minTime |-> mint, maxTime |-> maxt, labels |-> lbls,
     resolution |-> res, numSamples |-> samples, sources |-> srcs]

VARIABLES
    \* ---- Syncer (shared by SpecSync, SpecGC) ----
    blocks,      \* Syncer.blocks: ULID -> Meta
    partial,     \* Syncer.partial: the IDs of the partial blocks
    \* ---- SyncMetas callers and the single-flight ----
    spc,         \* position of each SyncMetas call
    sfm,         \* singleflight map g.m[""]: index into calls, 0 when absent
    calls,       \* the single-flight call objects: [val, finished]
    joined,      \* the call object each caller holds (0: none)
    sgot,        \* what g.Do returned to each caller
    sret,        \* what SyncMetas returned to each caller
    fetchCount,  \* number of invocations of fetcher.Fetch
    sfetched,    \* whether the caller's Do invoked Fetch itself
    sawCall,     \* the call found in g.m when the caller entered Do (0: none)
    sOverlap,    \* whether all callers were inside SyncMetas at the same moment
    \* ---- the bucket ----
    bktDelMarks, \* deletion markers in the bucket: ULID -> reason
    bktNoCompactMarks, \* the IDs of the blocks with a no-compact marker in the bucket
    bktBlocks,   \* the IDs of the blocks whose objects are in the bucket
    \* ---- GarbageCollect ----
    dupFilter,     \* duplicateBlocksFilter.DuplicateIDs(), a slice
    delMarkFilter, \* keys of ignoreDeletionMarkFilter.DeletionMarkBlocks()
    ctxDone,       \* whether the caller's context is cancelled
    gcpc,          \* position of the GarbageCollect call
    gcDel,         \* local deletionMarkMap (its keys)
    gcDup,         \* local duplicateIDs
    garbageIDs,    \* the garbage IDs not yet visited by the loop
    gcret,         \* what GarbageCollect returned
    gcTried,       \* the IDs MarkForDeletion was called for, in order
    gcBlocks0,     \* Syncer.blocks when the call started
    gcBkt0,        \* the bucket's deletion markers when the call started
    \* ---- DefaultGrouper.Groups ----
    blockFilesConcurrency, \* DefaultGrouper.blockFilesConcurrency
    gpc,           \* position of the Groups call
    gtodo,         \* the IDs of the blocks map the range loop has not visited
    gres,          \* res: the groups created so far, in creation order
    gerr,          \* the error Groups returned
    \* ---- Group.Compact on one group ----
    enableVerticalCompaction,      \* Group.enableVerticalCompaction
    acceptMalformedIndex,          \* Group.acceptMalformedIndex
    compactBlocksFetchConcurrency, \* Group.compactBlocksFetchConcurrency
    metasByMinTime,    \* Group.metasByMinTime
    cgMtx,             \* whether Group.mtx is held
    cpc,               \* position of the Compact call
    subDir,            \* the group's work directory: "absent", "present"
    overlappingBlocks, \* local overlappingBlocks of compact
    planned,           \* what planner.Plan returned: "none" (not called), "error", "empty", "some"
    toCompact,         \* local toCompact: the plan
    dlTodo,            \* planned metas whose download task is not yet started
    dlRunning,         \* planned metas whose download task runs in the errgroup
    dlErr,             \* the errgroup's first error
    dlCause,           \* the ID of the block whose task returned dlErr (0: none)
    dlIn,              \* how that task went: download, health stats, diagnoses
    downloads,         \* IDs of the blocks block.Download was called for
    compIDs,           \* local compIDs: the IDs of the compactor's result blocks
    ri,                \* index in compIDs of the result block being processed
    uploads,           \* the metas of the blocks uploaded to the bucket, in order
    mi,                \* index in toCompact of the source the delete loops are at
    cgDel,             \* deleteBlock's outcome for each source it was called for
    cret,              \* what Compact returned: [shouldRerun, compIDs, err]
    plannerCalls,      \* number of planner.Plan calls
    mergeCalls,        \* number of calls of the low-level compactor
    merged,            \* what the low-level compactor returned: "none" (not called),
                       \* "error", "empty" (no block), "some"
    cgBkt0,            \* the bucket's deletion markers when Compact was called
    cgMetas0,          \* Group.metasByMinTime when Compact was called
    panicAt,           \* where a panic was raised during the call: "none", "compact" (on
                       \* the goroutine that runs Compact), "download" (in a download task)
    cgIDs,             \* local cgIDs of the recover handler: the IDs its error names
    rmAll,             \* the deferred os.RemoveAll(subDir) of the call: "none" (not called),
                       \* "ok", "failed"
    \* ---- BucketCompactor.Compact ----
    skipBlocksWithOutOfOrderChunks, \* BucketCompactor.skipBlocksWithOutOfOrderChunks
    bpc,               \* position of BucketCompactor.Compact
    bcPass,            \* number of the pass (iteration of the outer loop), counted up
                       \* to MaxPasses
    bcGroups,          \* groups: what the grouper returned in this pass
    gi,                \* index in groups of the group the sender loop is at
    groupChanClosed,   \* whether groupChan is closed
    errChan,           \* the errors buffered in errChan
    wpc,               \* position of each worker goroutine of this pass
    wgrp,              \* index in groups of the group a worker is compacting (0: none)
    werr,              \* the error a worker is about to publish
    finishedAllGroups, \* local finishedAllGroups
    groupErrs,         \* local groupErrs
    bret,              \* what BucketCompactor.Compact returned
    bcInvoked,         \* the groups (indexes in groups) Group.Compact was called on in
                       \* this pass, in the order of the calls
    wout,              \* the error g.Compact just returned to each worker (until the
                       \* worker's next step)
    whelp,             \* what the worker did about it: "none", "repaired", "repairfail",
                       \* "marked" (no-compact marker written), "markfail"
    bcMore,            \* why this pass has more work: "rerun", "repaired", "nocompact"
    bcPublished,       \* the errors the workers sent to errChan in this pass, in order
    workCtxDone,       \* whether workCtx, the context the workers compact under, is cancelled
    bcSteps,           \* what the pass has completed so far, in order: "sync", "gc", "groups"
    \* ---- IsHaltError and IsRetryError on a multi-error ----
    mKinds,            \* the members of the multi-error: how each was built, and its error
    mWrapped,          \* whether the multi-error is passed inside errors.Wrap
    mpc,               \* which of the two classifications have been computed
    mHalt,             \* what IsHaltError returned
    mRetry,            \* what IsRetryError returned
    \* ---- RetentionProgressCalculator.ProgressCalculate ----
    retentionByResolution, \* RetentionProgressCalculator.retentionByResolution, in ms
    rGroups,           \* groups: for each group its key and its metasByMinTime
    rNow,              \* the clock time.Now() reads, in ms
    rpc,               \* position of the ProgressCalculate call
    rgi,               \* index in groups of the group the outer loop is at
    rmi,               \* index in the group's metas of the block the inner loop is at
    groupBlocks,       \* local groupBlocks: group key -> count
    NumberOfBlocksToDelete, \* the gauge NumberOfBlocksToDelete
    rVisited,          \* for each block visited: the block, the clock and whether it was counted
    \* ---- one Group shared by several goroutines ----
    mxPc,              \* where each caller stands: the callers of Compact, and the caller
                       \* of AppendMeta, IDs and deleteFromGroup
    mxHolder,          \* the caller that holds cg.mtx (NoHolder: the mutex is free)
    mxMetas,           \* the block IDs of cg.metasByMinTime
    mxSeen,            \* for each caller: metasByMinTime as it was when it took the mutex
    mxCalls,           \* the method calls made so far
    \* ---- RepairIssue347 ----
    rpPc,              \* the statement RepairIssue347 is at
    rpIn,              \* issue347Err, the error it was given
    rpLog,             \* the block operations it has made, in order, with their outcome
    rpRet,             \* the error it returned
    \* ---- GatherNoCompactionMarkFilter.Filter ----
    nfPc,              \* where Filter stands: off, running, returned
    nfMetas,           \* the IDs of the metas map Filter is given
    nfMetas0,          \* the metas map as it was when Filter was called
    nfCtxDone,         \* ctx is cancelled
    nfTodo,            \* the blockIDs the distributing goroutine has yet to offer
    nfSender,          \* the distributing goroutine: run, done
    nfCh,              \* ch: [buf, closed]
    nfW,               \* the workers: [pc, id, lastErr]
    nfLocal,           \* the local noCompactMarkedMap
    nfEgErr,           \* the first error a goroutine of eg returned
    nfScanned,         \* the outcome of ReadMarker for the blocks read so far
    nfPublished,       \* f.noCompactMarkedMap
    nfRet,             \* the error Filter returned
    \* ---- CompactionProgressCalculator.ProgressCalculate ----
    pgPc,              \* where ProgressCalculate stands: off, loop, returned
    pgGroups,          \* the Group objects the caller passed, by position
    pgGroups0,         \* their metasByMinTime as it was at the call
    pgQueue,           \* the positions of groups the inner loop has yet to visit
    pgTmp,             \* tmpGroups
    pgCompactions,     \* groupCompactions, by group key
    pgBlocks,          \* groupBlocks, by group key
    pgNow,             \* time.Now().Unix()
    pgRet,             \* the error ProgressCalculate returned
    \* ---- halt and retry classes of one error ----
    clErr,             \* the error at hand
    clPc,              \* which of IsHaltError, IsRetryError and retry were applied to it
    clHalt,            \* IsHaltError(err)
    clRetry,           \* IsRetryError(err)
    clRetried          \* retry(err)

syncerVars == <<blocks, partial>>

syncVars == <<spc, sfm, calls, joined, sgot, sret, fetchCount, sfetched, sawCall, sOverlap>>

bktVars == <<bktDelMarks, bktNoCompactMarks, bktBlocks>>

\* the bucket but for its deletion markers
bktRest == <<bktNoCompactMarks, bktBlocks>>

gcVars == <<dupFilter, delMarkFilter, ctxDone, gcpc, gcDel, gcDup, garbageIDs, gcret, gcTried,
            gcBlocks0, gcBkt0>>

grpVars == <<blockFilesConcurrency, gpc, gtodo, gres, gerr>>

cgVars == <<enableVerticalCompaction, acceptMalformedIndex, compactBlocksFetchConcurrency,
            metasByMinTime, cgMtx, cpc, subDir, overlappingBlocks, planned, toCompact,
            dlTodo, dlRunning, dlErr, dlCause, dlIn, downloads, compIDs, ri, uploads, mi, cgDel,
            cret, plannerCalls, mergeCalls, merged, cgBkt0, cgMetas0, panicAt, cgIDs,
            rmAll>>

\* parts of cgVars: the group's fields, and the locals of compact by phase
cgConf == <<enableVerticalCompaction, acceptMalformedIndex, compactBlocksFetchConcurrency,
            metasByMinTime>>

cgPlan == <<overlappingBlocks, planned, toCompact, plannerCalls>>

cgDl == <<dlTodo, dlRunning, dlErr, dlCause, dlIn, downloads>>

cgOut == <<compIDs, ri, uploads, mi, cgDel, mergeCalls, merged>>

cgHist == <<cgBkt0, cgMetas0, panicAt, cgIDs, rmAll>>

bcVars == <<skipBlocksWithOutOfOrderChunks, bpc, bcPass, bcGroups, gi, groupChanClosed,
            errChan, wpc, wgrp, werr, finishedAllGroups, groupErrs, bret, bcInvoked,
            wout, whelp, bcMore, bcPublished, workCtxDone, bcSteps>>

\* the work context of the pass and the record of its steps
bcCtl == <<workCtxDone, bcSteps>>

\* what is recorded about a pass of BucketCompactor.Compact
bcHist == <<wout, whelp, bcMore, bcPublished>>

classVars == <<mKinds, mWrapped, mpc, mHalt, mRetry>>

retVars == <<retentionByResolution, rGroups, rNow, rpc, rgi, rmi, groupBlocks,
             NumberOfBlocksToDelete, rVisited>>

mutexVars == <<mxPc, mxHolder, mxMetas, mxSeen, mxCalls>>

\* the components that stand for themselves
repairVars == <<rpPc, rpIn, rpLog, rpRet>>

filterVars == <<nfPc, nfMetas, nfMetas0, nfCtxDone, nfTodo, nfSender, nfCh, nfW, nfLocal,
                nfEgErr, nfScanned, nfPublished, nfRet>>

progressVars == <<pgPc, pgGroups, pgGroups0, pgQueue, pgTmp, pgCompactions, pgBlocks, pgNow,
                  pgRet>>

errClassVars == <<clErr, clPc, clHalt, clRetry, clRetried>>

auxVars == <<mutexVars, repairVars, filterVars, progressVars, errClassVars>>

\* the computations that touch neither the syncer, nor the bucket, nor a group
pureVars == <<classVars, retVars, auxVars>>

vars == <<syncerVars, syncVars, bktVars, gcVars, grpVars, cgVars, bcVars, pureVars>>

\* what the steps of one component leave alone
syncFrame == <<bktVars, gcVars, grpVars, cgVars, bcVars, pureVars>>

gcFrame == <<partial, syncVars, grpVars, cgVars, bcVars, pureVars>>

grpFrame == <<syncerVars, syncVars, bktVars, gcVars, cgVars, bcVars, pureVars>>

cgFrame == <<syncerVars, syncVars, gcVars, grpVars, bcVars, pureVars>>

bcFrame == <<syncerVars, syncVars, bktVars, gcVars, grpVars, cgVars, pureVars>>

bcRest == <<syncerVars, syncVars, gcVars, grpVars, cgVars, pureVars>>

classFrame == <<syncerVars, syncVars, bktVars, gcVars, grpVars, cgVars, bcVars, retVars,
                auxVars>>

retFrame == <<syncerVars, syncVars, bktVars, gcVars, grpVars, cgVars, bcVars, classVars,
              auxVars>>

\* what the steps of the components of auxVars leave alone
coreVars == <<syncerVars, syncVars, bktVars, gcVars, grpVars, cgVars, bcVars, classVars,
              retVars>>

mutexFrame == <<coreVars, repairVars, filterVars, progressVars, errClassVars>>

repairFrame == <<coreVars, mutexVars, filterVars, progressVars, errClassVars>>

filterFrame == <<coreVars, mutexVars, repairVars, progressVars, errClassVars>>

progressFrame == <<coreVars, mutexVars, repairVars, filterVars, errClassVars>>

errClassFrame == <<coreVars, mutexVars, repairVars, filterVars, progressVars>>

(***************************************************************************)
(* Syncer.SyncMetas                                                        *)
(***************************************************************************)
Callers == 1 .. NCallers

SnapA == (1 :> Meta(1, 0, 2, 1, 0, 10, {1}))

SnapB == (1 :> Meta(1, 0, 2, 1, 0, 10, {1})) @@ (2 :> Meta(2, 2, 4, 1, 0, 10, {2}))

\* What fetcher.Fetch may return: (metas, partial, err).  The fetcher lives in
\* pkg/block, which cannot create this package's HaltError or RetryError.
FetchResults ==
    { [metas |-> SnapA, partial |-> {}, err |-> NoErr],
      [metas |-> SnapB, partial |-> {3}, err |-> NoErr],
      [metas |-> <<>>, partial |-> {}, err |-> NewErr("fetch")],
      [metas |-> <<>>, partial |-> {},
       err |-> Wrap(MultiErr(<<NewErr("meta 1"), NewErr("meta 2")>>), "incomplete view")] }

NoResult == [metas |-> <<>>, partial |-> {}, err |-> NoErr]

SyncerInit ==
    /\ blocks = <<>>
    /\ partial = {}

SyncInit ==
    /\ spc = [p \in Callers |-> "idle"]
    /\ sfm = 0
    /\ calls = <<>>
    /\ joined = [p \in Callers |-> 0]
    /\ sgot = [p \in Callers |-> NoResult]
    /\ sret = [p \in Callers |-> NoErr]
    /\ fetchCount = 0
    /\ sfetched = [p \in Callers |-> FALSE]
    /\ sawCall = [p \in Callers |-> 0]
    /\ sOverlap = FALSE

\* the callers inside SyncMetas
Active(pcs) == {p \in Callers : pcs[p] \notin {"idle", "done"}}

\* A caller enters SyncMetas and derives its context.
SyncEnter(p) ==
    /\ spc[p] = "idle"
    /\ spc' = [spc EXCEPT ![p] = "do"]
    /\ sOverlap' = (sOverlap \/ Active(spc') = Callers)
    /\ UNCHANGED <<sfm, calls, joined, sgot, sret, fetchCount, sfetched, sawCall>>
    /\ UNCHANGED syncerVars
    /\ UNCHANGED syncFrame

\* fn of the single-flight: a call object for the fetch, and Fetch invoked
FetchDirect(p) ==
    /\ calls' = Append(calls, [val |-> NoResult, finished |-> FALSE])
    /\ sfm' = Len(calls) + 1
    /\ joined' = [joined EXCEPT ![p] = Len(calls) + 1]
    /\ fetchCount' = fetchCount + 1
    /\ sfetched' = [sfetched EXCEPT ![p] = TRUE]
    /\ spc' = [spc EXCEPT ![p] = "fetching"]

\* singleflight.Group.Do, under g.mu: a call registered under the key is joined,
\* otherwise a new call is registered and fn (the fetch) is started by this caller.
DoJoinOrRegister(p) ==
    IF sfm # 0
    THEN /\ joined' = [joined EXCEPT ![p] = sfm]
         /\ spc' = [spc EXCEPT ![p] = "waiting"]
         /\ UNCHANGED <<sfm, calls, fetchCount, sfetched>>
    ELSE /\ calls' = Append(calls, [val |-> NoResult, finished |-> FALSE])
         /\ sfm' = Len(calls) + 1
         /\ joined' = [joined EXCEPT ![p] = Len(calls) + 1]
         /\ fetchCount' = fetchCount + 1
         /\ sfetched' = [sfetched EXCEPT ![p] = TRUE]
         /\ spc' = [spc EXCEPT ![p] = "fetching"]

\* SyncMetas calls s.g.Do("", fetch).
SyncDoWithoutSingleFlight(p) ==
    /\ spc[p] = "do"
    /\ sawCall' = [sawCall EXCEPT ![p] = sfm]
    /\ FetchDirect(p)
    /\ UNCHANGED <<sgot, sret, sOverlap>>
    /\ UNCHANGED syncerVars
    /\ UNCHANGED syncFrame

SyncDo(p) ==
    /\ spc[p] = "do"
    /\ sawCall' = [sawCall EXCEPT ![p] = sfm]
    /\ DoJoinOrRegister(p)
    /\ UNCHANGED <<sgot, sret, sOverlap>>
    /\ UNCHANGED syncerVars
    /\ UNCHANGED syncFrame

\* fn returns: c.val, c.err = fn(); c.wg.Done()
FetchReturn(p) ==
    /\ spc[p] = "fetching"
    /\ \E r \in FetchResults :
          calls' = [calls EXCEPT ![joined[p]] = [val |-> r, finished |-> TRUE]]
    /\ spc' = [spc EXCEPT ![p] = "unreg"]
    /\ UNCHANGED <<sfm, joined, sgot, sret, fetchCount, sfetched, sawCall, sOverlap>>
    /\ UNCHANGED syncerVars
    /\ UNCHANGED syncFrame

\* the caller that ran fn unregisters the call and returns its value
DoUnregister(p) ==
    /\ spc[p] = "unreg"
    /\ sfm' = 0
    /\ sgot' = [sgot EXCEPT ![p] = calls[joined[p]].val]
    /\ spc' = [spc EXCEPT ![p] = "landed"]
    /\ UNCHANGED <<calls, joined, sret, fetchCount, sfetched, sawCall, sOverlap>>
    /\ UNCHANGED syncerVars
    /\ UNCHANGED syncFrame

\* a caller that joined returns from c.wg.Wait() with the call's value
DoWake(p) ==
    /\ spc[p] = "waiting"
    /\ calls[joined[p]].finished
    /\ sgot' = [sgot EXCEPT ![p] = calls[joined[p]].val]
    /\ spc' = [spc EXCEPT ![p] = "landed"]
    /\ UNCHANGED <<sfm, calls, joined, sret, fetchCount, sfetched, sawCall, sOverlap>>
    /\ UNCHANGED syncerVars
    /\ UNCHANGED syncFrame

\* After Do: an error is returned as retry(err); otherwise the container is
\* installed under s.mtx.
SyncFinishInstallAlways(p) ==
    /\ sret' = [sret EXCEPT ![p] = IF sgot[p].err # NoErr THEN retry(sgot[p].err) ELSE NoErr]
    /\ blocks' = sgot[p].metas
    /\ partial' = sgot[p].partial

SyncFinish(p) ==
    IF sgot[p].err # NoErr
    THEN /\ sret' = [sret EXCEPT ![p] = retry(sgot[p].err)]
         /\ UNCHANGED syncerVars
    ELSE /\ sret' = [sret EXCEPT ![p] = NoErr]
         /\ blocks' = sgot[p].metas
         /\ partial' = sgot[p].partial

SyncReturn(p) ==
    /\ spc[p] = "landed"
    /\ SyncFinish(p)
    /\ spc' = [spc EXCEPT ![p] = "done"]
    /\ UNCHANGED <<sfm, calls, joined, sgot, fetchCount, sfetched, sawCall, sOverlap>>
    /\ UNCHANGED syncFrame

\* the bucket holds no deletion marker
BktEmpty ==
    /\ bktDelMarks = <<>>
    /\ bktNoCompactMarks = {}
    /\ bktBlocks = {}

\* no GarbageCollect call
GCOff ==
    /\ dupFilter = <<>>
    /\ delMarkFilter = {}
    /\ ctxDone = FALSE
    /\ gcpc = "idle"
    /\ gcDel = {}
    /\ gcDup = <<>>
    /\ garbageIDs = <<>>
    /\ gcret = NoErr
    /\ gcTried = <<>>
    /\ gcBlocks0 = <<>>
    /\ gcBkt0 = <<>>

\* no Groups call
GrouperOff ==
    /\ blockFilesConcurrency = 1
    /\ gpc = "idle"
    /\ gtodo = {}
    /\ gres = <<>>
    /\ gerr = NoErr

NoReturn == [shouldRerun |-> FALSE, compIDs |-> <<>>, err |-> NoErr]

NoCause == 0

\* no download task has failed
NoTask == [dlOk |-> TRUE, statsOk |-> TRUE, diag |-> {}]

\* no Compact call on a group
GroupOff ==
    /\ enableVerticalCompaction = FALSE
    /\ acceptMalformedIndex = FALSE
    /\ compactBlocksFetchConcurrency = 1
    /\ metasByMinTime = <<>>
    /\ cgMtx = FALSE
    /\ cpc = "idle"
    /\ subDir = "absent"
    /\ overlappingBlocks = FALSE
    /\ planned = "none"
    /\ toCompact = <<>>
    /\ dlTodo = <<>>
    /\ dlRunning = {}
    /\ dlErr = NoErr
    /\ dlCause = NoCause
    /\ dlIn = NoTask
    /\ downloads = {}
    /\ compIDs = <<>>
    /\ ri = 0
    /\ uploads = <<>>
    /\ mi = 0
    /\ cgDel = <<>>
    /\ cret = NoReturn
    /\ plannerCalls = 0
    /\ mergeCalls = 0
    /\ merged = "none"
    /\ cgBkt0 = <<>>
    /\ cgMetas0 = <<>>
    /\ panicAt = "none"
    /\ cgIDs = <<>>
    /\ rmAll = "none"

\* c.concurrency: the number of worker goroutines of a pass
NWorkers == 2

Workers == 1 .. NWorkers

\* no BucketCompactor.Compact call
BCOff ==
    /\ skipBlocksWithOutOfOrderChunks = FALSE
    /\ bpc = "idle"
    /\ bcPass = 0
    /\ bcGroups = <<>>
    /\ gi = 0
    /\ groupChanClosed = FALSE
    /\ errChan = <<>>
    /\ wpc = [w \in Workers |-> "none"]
    /\ wgrp = [w \in Workers |-> 0]
    /\ werr = [w \in Workers |-> NoErr]
    /\ finishedAllGroups = TRUE
    /\ groupErrs = <<>>
    /\ bret = NoErr
    /\ bcInvoked = <<>>
    /\ wout = [w \in Workers |-> NoErr]
    /\ whelp = [w \in Workers |-> "none"]
    /\ bcMore = {}
    /\ bcPublished = <<>>
    /\ workCtxDone = FALSE
    /\ bcSteps = <<>>

\* no classification of a multi-error
ClassifyOff ==
    /\ mKinds = <<>>
    /\ mWrapped = FALSE
    /\ mpc = {}
    /\ mHalt = FALSE
    /\ mRetry = FALSE

\* no RetentionProgressCalculator.ProgressCalculate call
RetentionOff ==
    /\ retentionByResolution = <<>>
    /\ rGroups = <<>>
    /\ rNow = 0
    /\ rpc = "idle"
    /\ rgi = 0
    /\ rmi = 0
    /\ groupBlocks = <<>>
    /\ NumberOfBlocksToDelete = 0
    /\ rVisited = <<>>

\* goroutines that call Compact on the one group
NCompactCallers == 2

CompactCallers == 1 .. NCompactCallers

\* the goroutine that calls AppendMeta, IDs and deleteFromGroup on it
MethodCaller == 0

MutexCallers == CompactCallers \cup {MethodCaller}

NoHolder == 0 - 1

\* no goroutine works on a shared group
MutexOff ==
    /\ mxPc = <<>>
    /\ mxHolder = NoHolder
    /\ mxMetas = {}
    /\ mxSeen = <<>>
    /\ mxCalls = 0

\* RepairIssue347 is not running
RepairOff ==
    /\ rpPc = "off"
    /\ rpIn = NoErr
    /\ rpLog = <<>>
    /\ rpRet = NoErr

\* Filter is not running
FilterOff ==
    /\ nfPc = "off"
    /\ nfMetas = {}
    /\ nfMetas0 = {}
    /\ nfCtxDone = FALSE
    /\ nfTodo = {}
    /\ nfSender = "off"
    /\ nfCh = <<>>
    /\ nfW = <<>>
    /\ nfLocal = {}
    /\ nfEgErr = NoErr
    /\ nfScanned = <<>>
    /\ nfPublished = {}
    /\ nfRet = NoErr

\* ProgressCalculate is not running
ProgressOff ==
    /\ pgPc = "off"
    /\ pgGroups = <<>>
    /\ pgGroups0 = <<>>
    /\ pgQueue = <<>>
    /\ pgTmp = <<>>
    /\ pgCompactions = <<>>
    /\ pgBlocks = <<>>
    /\ pgNow = 0
    /\ pgRet = NoErr

\* no single error is being classified
ErrClassOff ==
    /\ clErr = NoErr
    /\ clPc = {}
    /\ clHalt = FALSE
    /\ clRetry = FALSE
    /\ clRetried = NoErr

AuxOff == MutexOff /\ RepairOff /\ FilterOff /\ ProgressOff /\ ErrClassOff

PureOff == ClassifyOff /\ RetentionOff /\ AuxOff

InitSync ==
    SyncerInit /\ SyncInit /\ BktEmpty /\ GCOff /\ GrouperOff /\ GroupOff /\ BCOff /\ PureOff

NextSync ==
    \/ \E p \in Callers : SyncEnter(p)
    \/ \E p \in Callers : SyncDo(p)
    \/ \E p \in Callers : FetchReturn(p)
    \/ \E p \in Callers : DoUnregister(p)
    \/ \E p \in Callers : DoWake(p)
    \/ \E p \in Callers : SyncReturn(p)

SpecSync == InitSync /\ [][NextSync]_vars

(***************************************************************************)
(* Claims about SyncMetas (checked under SpecSync).                        *)
(***************************************************************************)
AllSyncDone == \A p \in Callers : spc[p] = "done"

\* C1 (as stated): if the N calls to SyncMetas overlap in time, Fetch is
\* invoked exactly once and every call receives the result of that one fetch.
C1_OverlappingCallsFetchOnce ==
    (sOverlap /\ AllSyncDone) =>
        /\ fetchCount = 1
        /\ \A p, q \in Callers : sgot[p] = sgot[q]

\* C1 (amended): a call that enters the single-flight while a call is
\* registered there invokes no Fetch of its own and receives the value of that
\* registered call; Fetch is invoked once per registered call, never more
\* often than there are callers.
C1_InFlightCallsShareFetch ==
    /\ fetchCount = Len(calls)
    /\ fetchCount <= Cardinality({p \in Callers : spc[p] \notin {"idle", "do"}})
    /\ \A p \in Callers :
          (spc[p] \notin {"idle", "do"} /\ sawCall[p] # 0) =>
              /\ ~sfetched[p]
              /\ joined[p] = sawCall[p]
              /\ spc[p] \in {"landed", "done"} => sgot[p] = calls[sawCall[p]].val

\* C1 witness: all calls returned, one of them joined the other's fetch, and
\* Fetch ran once.
C1_Witness ==
    /\ AllSyncDone
    /\ fetchCount = 1
    /\ \E p \in Callers : sawCall[p] # 0 /\ sgot[p] = calls[1].val

\* C2: when the fetch returned an error, SyncMetas returns a retryable error
\* (IsRetryError) and the returning call leaves blocks and partial as they are;
\* the snapshot changes only when a call that got no error returns.
C2_FetchErrorRetryableNothingInstalled ==
    [][ /\ \A p \in Callers :
              (spc[p] = "landed" /\ spc'[p] = "done" /\ sgot[p].err # NoErr) =>
                  /\ IsRetryError(sret'[p])
                  /\ sret'[p] = retry(sgot[p].err)
                  /\ blocks' = blocks
                  /\ partial' = partial
        /\ (blocks' # blocks \/ partial' # partial) =>
              \E p \in Callers :
                  spc[p] = "landed" /\ spc'[p] = "done" /\ sgot[p].err = NoErr
      ]_vars

\* C2 witness: a call returned a retryable error while an earlier snapshot is
\* still installed.
C2_Witness ==
    \E p \in Callers :
        /\ spc[p] = "done"
        /\ sgot[p].err # NoErr
        /\ IsRetryError(sret[p])
        /\ blocks = SnapB
        /\ partial = {3}

(***************************************************************************)
(* Syncer.GarbageCollect                                                   *)
(***************************************************************************)
\* number of block IDs the garbage collection model ranges over
NGCBlocks == 3

GCIDs == 1 .. NGCBlocks

GCMeta(i) == Meta(i, 2 * (i - 1), 2 * i, 1, 0, 10, {i})

\* block.MarkForDeletion when it succeeds: a block that has a marker keeps it
\* (a warning is logged, nil returned), otherwise the marker is uploaded.
MarkForDeletion(bkt, id, reason) ==
    IF id \in DOMAIN bkt THEN bkt
    ELSE [i \in DOMAIN bkt \cup {id} |-> IF i = id THEN reason ELSE bkt[i]]

\* a delete that leaves the map as it is
MapDeleteNothing(m, id) == m

\* delete(m, id) on a Go map
MapDelete(m, id) == [i \in DOMAIN m \ {id} |-> m[i]]

\* The state a GarbageCollect call may start in: the deletion-mark filter
\* reports markers that are in the bucket.
GCInit ==
    /\ dupFilter \in Arrangements(GCIDs)
    /\ delMarkFilter \in SUBSET GCIDs
    /\ \E marked \in SUBSET GCIDs :
          /\ delMarkFilter \subseteq marked
          /\ bktDelMarks = [i \in marked |-> "marked earlier"]
    /\ bktNoCompactMarks = {}
    /\ bktBlocks = GCIDs
    /\ \E present \in {GCIDs, GCIDs \ Range(dupFilter)} :
          blocks = [i \in present |-> GCMeta(i)]
    /\ partial = {}
    /\ ctxDone = FALSE
    /\ gcpc = "idle"
    /\ gcDel = {}
    /\ gcDup = <<>>
    /\ garbageIDs = <<>>
    /\ gcret = NoErr
    /\ gcTried = <<>>
    /\ gcBlocks0 = <<>>
    /\ gcBkt0 = <<>>

\* deletionMarkMap := s.ignoreDeletionMarkFilter.DeletionMarkBlocks()
GCReadDeletionMarks ==
    /\ gcpc = "idle"
    /\ gcDel' = delMarkFilter
    /\ gcBlocks0' = blocks
    /\ gcBkt0' = bktDelMarks
    /\ gcpc' = "dups"
    /\ UNCHANGED <<dupFilter, delMarkFilter, ctxDone, gcDup, garbageIDs, gcret, gcTried>>
    /\ UNCHANGED <<blocks, bktVars, gcFrame>>

\* garbageIDs: the duplicate IDs that are not in deletionMarkMap, in order
GarbageIDsAll(duplicateIDs, deletionMarkMap) == duplicateIDs

GarbageIDs(duplicateIDs, deletionMarkMap) ==
    SelectSeq(duplicateIDs, LAMBDA id : id \notin deletionMarkMap)

\* duplicateIDs := s.duplicateBlocksFilter.DuplicateIDs(), then the first loop
GCReadDuplicates ==
    /\ gcpc = "dups"
    /\ gcDup' = dupFilter
    /\ garbageIDs' = GarbageIDs(dupFilter, gcDel)
    /\ gcpc' = "loop"
    /\ UNCHANGED <<dupFilter, delMarkFilter, ctxDone, gcDel, gcret, gcTried, gcBlocks0, gcBkt0>>
    /\ UNCHANGED <<blocks, bktVars, gcFrame>>

\* the loop finds ctx.Err() != nil and returns it
GCCancelled ==
    /\ gcpc = "loop"
    /\ garbageIDs # <<>>
    /\ ctxDone
    /\ gcret' = NewErr("context canceled")
    /\ gcpc' = "done"
    /\ UNCHANGED <<dupFilter, delMarkFilter, ctxDone, gcDel, gcDup, garbageIDs, gcTried,
                   gcBlocks0, gcBkt0>>
    /\ UNCHANGED <<blocks, bktVars, gcFrame>>

\* one iteration: MarkForDeletion(id, "outdated block") fails and the call
\* returns a retry error, or succeeds and the ID is deleted from s.blocks
GCMarkBlock ==
    /\ gcpc = "loop"
    /\ garbageIDs # <<>>
    /\ ~ctxDone
    /\ LET id == Head(garbageIDs) IN
         /\ gcTried' = Append(gcTried, id)
         /\ \E ok \in BOOLEAN :
              IF ok
              THEN /\ bktDelMarks' = MarkForDeletion(bktDelMarks, id, "outdated block")
                   /\ blocks' = MapDelete(blocks, id)
                   /\ garbageIDs' = Tail(garbageIDs)
                   /\ UNCHANGED <<gcpc, gcret>>
              ELSE /\ gcret' = retry(Wrap(NewErr("upload"), "mark block for deletion"))
                   /\ gcpc' = "done"
                   /\ UNCHANGED <<bktDelMarks, blocks, garbageIDs>>
    /\ UNCHANGED <<dupFilter, delMarkFilter, ctxDone, gcDel, gcDup, gcBlocks0, gcBkt0>>
    /\ UNCHANGED <<bktRest, gcFrame>>

\* all garbage IDs visited: return nil
GCFinish ==
    /\ gcpc = "loop"
    /\ garbageIDs = <<>>
    /\ gcret' = NoErr
    /\ gcpc' = "done"
    /\ UNCHANGED <<dupFilter, delMarkFilter, ctxDone, gcDel, gcDup, garbageIDs, gcTried,
                   gcBlocks0, gcBkt0>>
    /\ UNCHANGED <<blocks, bktVars, gcFrame>>

\* the caller's context is cancelled
CtxCancel ==
    /\ ~ctxDone
    /\ gcpc # "done"
    /\ ctxDone' = TRUE
    /\ UNCHANGED <<dupFilter, delMarkFilter, gcpc, gcDel, gcDup, garbageIDs, gcret, gcTried,
                   gcBlocks0, gcBkt0>>
    /\ UNCHANGED <<blocks, bktVars, gcFrame>>

\* a fetch elsewhere refreshes the filters while the call runs: the
\* deletion-mark filter now reports every marker of the bucket
FilterRefresh ==
    /\ gcpc \in {"dups", "loop"}
    /\ delMarkFilter # DOMAIN bktDelMarks \/ dupFilter # <<>>
    /\ delMarkFilter' = DOMAIN bktDelMarks
    /\ dupFilter' = <<>>
    /\ UNCHANGED <<ctxDone, gcpc, gcDel, gcDup, garbageIDs, gcret, gcTried, gcBlocks0, gcBkt0>>
    /\ UNCHANGED <<blocks, bktVars, gcFrame>>

InitGC == GCInit /\ SyncInit /\ GrouperOff /\ GroupOff /\ BCOff /\ PureOff

NextGC ==
    \/ GCReadDeletionMarks
    \/ GCReadDuplicates
    \/ GCCancelled
    \/ GCMarkBlock
    \/ GCFinish
    \/ CtxCancel
    \/ FilterRefresh

SpecGC == InitGC /\ [][NextGC]_vars

(***************************************************************************)
(* Claims about GarbageCollect (checked under SpecGC).                     *)
(***************************************************************************)
\* the garbage of the call: what the duplicate filter reported to it, less
\* what the deletion-mark filter reported to it
GCGarbage == Range(gcDup) \ gcDel

\* C3: a GarbageCollect call writes a deletion marker, and removes a snapshot
\* entry, only for IDs the duplicate filter reported to the call that are not
\* in the deletion-mark map the call read; every other marker and every other
\* snapshot entry is as it was when the call started.
C3_GCTouchesOnlyGarbage ==
    gcpc \in {"loop", "done"} =>
        /\ Range(gcTried) \subseteq GCGarbage
        /\ (DOMAIN bktDelMarks) \ (DOMAIN gcBkt0) \subseteq GCGarbage
        /\ (DOMAIN gcBlocks0) \ (DOMAIN blocks) \subseteq GCGarbage
        /\ DOMAIN blocks \subseteq DOMAIN gcBlocks0
        /\ \A i \in DOMAIN blocks : blocks[i] = gcBlocks0[i]
        /\ \A i \in DOMAIN gcBkt0 : i \in DOMAIN bktDelMarks /\ bktDelMarks[i] = gcBkt0[i]
        /\ \A i \in (DOMAIN bktDelMarks) \ (DOMAIN gcBkt0) : bktDelMarks[i] = "outdated block"

\* C3 witness: a finished call wrote a marker and removed a snapshot entry for
\* a duplicate, and left alone a duplicate that was in the deletion-mark map.
C3_Witness ==
    /\ gcpc = "done"
    /\ gcret = NoErr
    /\ \E i \in GCGarbage : i \notin DOMAIN gcBkt0 /\ i \in DOMAIN bktDelMarks
                              /\ i \in DOMAIN gcBlocks0 /\ i \notin DOMAIN blocks
    /\ \E j \in Range(gcDup) \cap gcDel : j \in DOMAIN blocks

(***************************************************************************)
(* DefaultGrouper.Groups, NewGroup, Group.AppendMeta                       *)
(***************************************************************************)
\* number of blocks in the map given to Groups
NGrpBlocks == 3

\* External label sets are named 1, 2, 3; resolutions are raw (0) and 5m (1).
\* The group key carries the resolution and a hash of the labels: label sets
\* 1 and 3 have the same hash.
LabelsHash(lbls) == lbls % 2

GroupKey(m) == <<m.resolution, LabelsHash(m.labels)>>

\* res[i].Key() < res[j].Key()
KeyLess(k1, k2) == k1[1] < k2[1] \/ (k1[1] = k2[1] /\ k1[2] < k2[2])

\* the (labels, resolution, minTime) a block of the map may have
MetaKinds ==
    { <<1, 0, 0>>, <<1, 0, 2>>, <<2, 0, 0>>, <<3, 0, 0>>, <<1, 1, 0>> }

GrpMeta(id, kind) == Meta(id, kind[3], kind[3] + 2, kind[1], kind[2], 10, {id})

\* the orders sort.Slice may leave: every arrangement of the metas that is
\* ascending in minTime (sort.Slice is not stable, so ties may land either way)
SortedByMinTime(metas) ==
    { s \in Arrangements(metas) :
        /\ Len(s) = Cardinality(metas)
        /\ \A i \in 1 .. Len(s) - 1 : s[i].minTime <= s[i + 1].minTime }

\* NewGroup: the group, or an error when blockFilesConcurrency <= 0
NewGroup(key, lset, resolution, bfc) ==
    IF bfc <= 0
    THEN [err |-> NewErr("invalid concurrency level"), group |-> <<>>]
    ELSE [err |-> NoErr,
          group |-> [key |-> key, labels |-> lset, resolution |-> resolution,
                     metasByMinTime |-> <<>>]]

\* Group.AppendMeta: the possible outcomes [err, metas]
\* an AppendMeta without the sort.Slice call
AppendMetaNoSort(cg, meta) ==
    IF cg.labels # meta.labels
    THEN {[err |-> NewErr("block and group labels do not match"),
           metas |-> cg.metasByMinTime]}
    ELSE IF cg.resolution # meta.resolution
    THEN {[err |-> NewErr("block and group resolution do not match"),
           metas |-> cg.metasByMinTime]}
    ELSE {[err |-> NoErr, metas |-> Append(cg.metasByMinTime, meta)]}

AppendMetaNoLabelCheck(cg, meta) ==
    IF cg.resolution # meta.resolution
    THEN {[err |-> NewErr("block and group resolution do not match"),
           metas |-> cg.metasByMinTime]}
    ELSE {[err |-> NoErr, metas |-> s] :
             s \in SortedByMinTime(Range(cg.metasByMinTime) \cup {meta})}

AppendMetaReplacing(cg, meta) ==
    IF cg.labels # meta.labels
    THEN {[err |-> NewErr("block and group labels do not match"),
           metas |-> cg.metasByMinTime]}
    ELSE IF cg.resolution # meta.resolution
    THEN {[err |-> NewErr("block and group resolution do not match"),
           metas |-> cg.metasByMinTime]}
    ELSE {[err |-> NoErr, metas |-> <<meta>>]}

AppendMeta(cg, meta) ==
    IF cg.labels # meta.labels
    THEN {[err |-> NewErr("block and group labels do not match"),
           metas |-> cg.metasByMinTime]}
    ELSE IF cg.resolution # meta.resolution
    THEN {[err |-> NewErr("block and group resolution do not match"),
           metas |-> cg.metasByMinTime]}
    ELSE {[err |-> NoErr, metas |-> s] :
             s \in SortedByMinTime(Range(cg.metasByMinTime) \cup {meta})}

\* Group.IDs (as a set)
IDs(cg) == {cg.metasByMinTime[j].ulid : j \in DOMAIN cg.metasByMinTime}

\* sort.Slice(res, by Key): keys are distinct, so the order is determined
RECURSIVE SortByKey(_)
SortByKey(gs) ==
    IF gs = {} THEN <<>>
    ELSE LET g == CHOOSE x \in gs : \A y \in gs : x = y \/ KeyLess(x.key, y.key)
         IN <<g>> \o SortByKey(gs \ {g})

\* the state a Groups call may start in
GrouperInit ==
    /\ blockFilesConcurrency \in {0, 1}
    /\ \E n \in 0 .. NGrpBlocks :
          \E kinds \in [1 .. n -> MetaKinds] :
              blocks = [i \in 1 .. n |-> GrpMeta(i, kinds[i])]
    /\ partial = {}
    /\ gpc = "idle"
    /\ gtodo = {}
    /\ gres = <<>>
    /\ gerr = NoErr

\* groups := map[string]*Group{}; the range over blocks begins
GroupsStart ==
    /\ gpc = "idle"
    /\ gtodo' = DOMAIN blocks
    /\ gpc' = "loop"
    /\ UNCHANGED <<blockFilesConcurrency, gres, gerr>>
    /\ UNCHANGED grpFrame

\* One iteration of the range over the blocks map (Go visits a map in no
\* fixed order): the block's group is looked up by key, created when missing,
\* and the meta appended; an error of NewGroup or AppendMeta ends the call.
GroupsVisit ==
    /\ gpc = "loop"
    /\ \E id \in gtodo :
         LET m == blocks[id]
             groupKey == GroupKey(m)
             found == {i \in DOMAIN gres : gres[i].key = groupKey}
             made == NewGroup(groupKey, m.labels, m.resolution, blockFilesConcurrency)
         IN IF found = {} /\ made.err # NoErr
            THEN /\ gerr' = Wrap(made.err, "create compaction group")
                 /\ gres' = <<>>
                 /\ gpc' = "done"
                 /\ UNCHANGED gtodo
            ELSE LET res1 == IF found = {} THEN Append(gres, made.group) ELSE gres
                     i == IF found = {} THEN Len(res1) ELSE CHOOSE j \in found : TRUE
                 IN \E out \in AppendMeta(res1[i], m) :
                       IF out.err # NoErr
                       THEN /\ gerr' = Wrap(out.err, "add compaction group")
                            /\ gres' = <<>>
                            /\ gpc' = "done"
                            /\ UNCHANGED gtodo
                       ELSE /\ gres' = [res1 EXCEPT ![i].metasByMinTime = out.metas]
                            /\ gtodo' = gtodo \ {id}
                            /\ UNCHANGED <<gpc, gerr>>
    /\ UNCHANGED blockFilesConcurrency
    /\ UNCHANGED grpFrame

\* every block visited: res is sorted by key and returned
GroupsReturn ==
    /\ gpc = "loop"
    /\ gtodo = {}
    /\ gres' = SortByKey(Range(gres))
    /\ gpc' = "done"
    /\ UNCHANGED <<blockFilesConcurrency, gtodo, gerr>>
    /\ UNCHANGED grpFrame

InitGrouper ==
    GrouperInit /\ SyncInit /\ BktEmpty /\ GCOff /\ GroupOff /\ BCOff /\ PureOff

NextGrouper ==
    \/ GroupsStart
    \/ GroupsVisit
    \/ GroupsReturn

SpecGrouper == InitGrouper /\ [][NextGrouper]_vars

(***************************************************************************)
(* Claims about the grouper (checked under SpecGrouper).                   *)
(***************************************************************************)
\* the positions (group, index) at which block id sits in the returned groups
PlacesOf(id) ==
    {<<i, j>> \in (DOMAIN gres) \X (1 .. NGrpBlocks + 1) :
        j \in DOMAIN gres[i].metasByMinTime /\ gres[i].metasByMinTime[j].ulid = id}

\* C4: when Groups returns without error, the returned groups partition the
\* input map (every block of the map sits at exactly one place of exactly one
\* group, and the groups hold nothing else), and any two blocks of one group
\* have equal external labels and equal resolution.
C4_GroupsPartitionByLabelsAndResolution ==
    (gpc = "done" /\ gerr = NoErr) =>
        /\ \A id \in DOMAIN blocks : Cardinality(PlacesOf(id)) = 1
        /\ \A i \in DOMAIN gres :
              /\ gres[i].metasByMinTime # <<>>
              /\ \A j \in DOMAIN gres[i].metasByMinTime :
                    LET m == gres[i].metasByMinTime[j]
                    IN /\ m.ulid \in DOMAIN blocks
                       /\ m = blocks[m.ulid]
              /\ \A j, k \in DOMAIN gres[i].metasByMinTime :
                    /\ gres[i].metasByMinTime[j].labels = gres[i].metasByMinTime[k].labels
                    /\ gres[i].metasByMinTime[j].resolution
                          = gres[i].metasByMinTime[k].resolution

\* C4 witness: Groups returned several groups, one of them with several
\* blocks, from a map whose blocks differ in labels and in resolution.
C4_Witness ==
    /\ gpc = "done"
    /\ gerr = NoErr
    /\ Len(gres) >= 2
    /\ \E i \in DOMAIN gres : Len(gres[i].metasByMinTime) >= 2
    /\ \E a, b \in DOMAIN blocks : blocks[a].labels # blocks[b].labels

(***************************************************************************)
(* Group.Compact and Group.compact on one group                            *)
(***************************************************************************)
\* number of blocks of the group
NCgBlocks == 3

\* most result blocks the low-level compactor returns from one call
MaxResults == 2

CgIDs == 1 .. NCgBlocks

\* the (minTime, maxTime, numSamples, derived from the common source 99) a
\* block of the group may have
CgKinds ==
    << <<0, 2, 10, FALSE>>, <<2, 4, 10, FALSE>>, <<1, 3, 0, TRUE>>, <<4, 6, 0, TRUE>>,
       <<2, 4, 10, TRUE>> >>

CgMeta(id, kind) ==
    Meta(id, kind[1], kind[2], 1, 0, kind[3], IF kind[4] THEN {99} ELSE {id})

\* the contents a group may have, up to a renaming of its blocks: block i
\* has the kind ks[i], and the kinds ascend with the IDs
CgContents ==
    {ks \in [CgIDs -> DOMAIN CgKinds] : \A i, j \in CgIDs : i <= j => ks[i] <= ks[j]}

\* metas in ascending minTime, as sort.Slice leaves them (ties by ULID here;
\* the blocks of the model have minTime < maxTime, for which the order of
\* ties does not change what OverlappingBlocks finds)
RECURSIVE SortMetas(_)
SortMetas(metas) ==
    IF metas = {} THEN <<>>
    ELSE LET m == CHOOSE x \in metas :
                     \A y \in metas :
                         x.minTime < y.minTime \/ (x.minTime = y.minTime /\ x.ulid <= y.ulid)
         IN <<m>> \o SortMetas(metas \ {m})

\* tsdb.OverlappingBlocks on metas sorted by minTime: each block's minTime is
\* the current time; the blocks seen before that have not ended yet are
\* pending, and a block that starts while one is pending overlaps it.
RECURSIVE OverlapSweep(_, _)
OverlapSweep(bm, pending) ==
    IF bm = <<>> THEN FALSE
    ELSE LET b == Head(bm)
             newPending == {q \in pending : ~(b.minTime >= q.maxTime)}
         IN newPending # {} \/ OverlapSweep(Tail(bm), newPending \cup {b})

OverlappingBlocks(bm) ==
    IF Len(bm) <= 1 THEN FALSE ELSE OverlapSweep(Tail(bm), {Head(bm)})

\* Group.areBlocksOverlapping(include, exclude...): TRUE when it returns an
\* error.  include is a set holding at most one meta.
areBlocksOverlapping(metas, include, exclude) ==
    LET excludeMap == {exclude[i].ulid : i \in DOMAIN exclude}
        kept == {m \in Range(metas) : m.ulid \notin excludeMap}
    IN OverlappingBlocks(SortMetas(kept \cup include))

\* the elements of seq at the indexes I, in order, from index k on
RECURSIVE Pick(_, _, _)
Pick(seq, I, k) ==
    IF k > Len(seq) THEN <<>>
    ELSE (IF k \in I THEN <<seq[k]>> ELSE <<>>) \o Pick(seq, I, k + 1)

\* what planner.Plan may return without error: any sub-list of the metas
Plans(metas) == {Pick(metas, I, 1) : I \in SUBSET DOMAIN metas}

\* DefaultCompactionLifecycleCallback.PreCompactionCallback finds a source
\* that an earlier block of the plan (or the same block) already named
HasDuplicatedSource(plan) ==
    \E i, j \in DOMAIN plan : i < j /\ plan[i].sources \cap plan[j].sources # {}

\* a callback that lets every plan pass
PreCompactionCallbackAlwaysPasses(vertical, plan) == NoErr

PreCompactionCallback(vertical, plan) ==
    IF HasDuplicatedSource(plan) /\ ~vertical
    THEN halt(NewErr("overlapping sources detected for plan"))
    ELSE NoErr

\* The state Compact may be called in: the metas of the group are sorted by
\* minTime, and the bucket may already hold a deletion marker for block 1.
GroupContentsInit ==
    /\ \E ks \in CgContents :
          metasByMinTime = SortMetas({CgMeta(i, CgKinds[ks[i]]) : i \in CgIDs})
    /\ bktDelMarks \in {<<>>, <<"outdated block">>}
    /\ bktNoCompactMarks = {}
    /\ bktBlocks = CgIDs
    /\ cgMtx = FALSE
    /\ cpc = "idle"
    /\ subDir = "absent"
    /\ overlappingBlocks = FALSE
    /\ planned = "none"
    /\ toCompact = <<>>
    /\ dlTodo = <<>>
    /\ dlRunning = {}
    /\ dlErr = NoErr
    /\ dlCause = NoCause
    /\ dlIn = NoTask
    /\ downloads = {}
    /\ compIDs = <<>>
    /\ ri = 0
    /\ uploads = <<>>
    /\ mi = 0
    /\ cgDel = <<>>
    /\ cret = NoReturn
    /\ plannerCalls = 0
    /\ mergeCalls = 0
    /\ merged = "none"
    /\ cgBkt0 = <<>>
    /\ cgMetas0 = <<>>
    /\ panicAt = "none"
    /\ cgIDs = <<>>
    /\ rmAll = "none"

GroupInit ==
    /\ enableVerticalCompaction \in BOOLEAN
    /\ acceptMalformedIndex \in BOOLEAN
    /\ compactBlocksFetchConcurrency = 2
    /\ GroupContentsInit

\* the values of compactBlocksFetchConcurrency NewGroup accepts: it checks
\* blockFilesConcurrency alone
FetchConcurrencies == {0 - 1, 0, 1, 2}

\* a group with any accepted compactBlocksFetchConcurrency
GroupFetchInit ==
    /\ enableVerticalCompaction = FALSE
    /\ acceptMalformedIndex = FALSE
    /\ compactBlocksFetchConcurrency \in FetchConcurrencies
    /\ GroupContentsInit

\* compact returns (shouldRerun, compIDs, err) to Compact
InnerReturn(rerun, ids, err) ==
    /\ cret' = [shouldRerun |-> rerun, compIDs |-> ids, err |-> err]
    /\ cpc' = "unwind"

\* Compact: the work directory is created (os.MkdirAll); when that fails
\* Compact returns the error at once.  Then compact takes the group's mutex.
CompactStart ==
    /\ cpc = "idle"
    /\ cgBkt0' = bktDelMarks
    /\ cgMetas0' = metasByMinTime
    /\ UNCHANGED <<panicAt, cgIDs, rmAll>>
    /\ \E mkdirOk \in BOOLEAN :
          IF mkdirOk
          THEN /\ subDir' = "present"
               /\ cgMtx' = TRUE
               /\ cpc' = "overlap"
               /\ UNCHANGED cret
          ELSE /\ cret' = [shouldRerun |-> FALSE, compIDs |-> <<>>,
                           err |-> Wrap(NewErr("mkdir"), "create compaction group dir")]
               /\ cpc' = "done"
               /\ UNCHANGED <<subDir, cgMtx>>
    /\ UNCHANGED <<cgConf, cgPlan, cgDl, cgOut>>
    /\ UNCHANGED <<bktVars, cgFrame>>

\* compact: the check for overlapped blocks.  Overlapping metas halt the
\* compaction unless vertical compaction is enabled.
OverlapCheckNeverHalts ==
    /\ cpc = "overlap"
    /\ overlappingBlocks' = areBlocksOverlapping(metasByMinTime, {}, <<>>)
    /\ cpc' = "plan"
    /\ UNCHANGED <<cgConf, planned, toCompact, plannerCalls, cgDl, cgOut>>
    /\ UNCHANGED <<cgMtx, subDir, cret, cgHist>>
    /\ UNCHANGED <<bktVars, cgFrame>>

OverlapCheck ==
    /\ cpc = "overlap"
    /\ IF areBlocksOverlapping(metasByMinTime, {}, <<>>)
       THEN IF ~enableVerticalCompaction
            THEN /\ InnerReturn(FALSE, <<>>,
                         halt(Wrap(NewErr("overlaps found while gathering blocks"),
                                   "pre compaction overlap check")))
                 /\ UNCHANGED overlappingBlocks
            ELSE /\ overlappingBlocks' = TRUE
                 /\ cpc' = "plan"
                 /\ UNCHANGED cret
       ELSE /\ cpc' = "plan"
            /\ UNCHANGED <<overlappingBlocks, cret>>
    /\ UNCHANGED <<cgConf, planned, toCompact, plannerCalls, cgDl, cgOut>>
    /\ UNCHANGED <<cgMtx, subDir, cgHist>>
    /\ UNCHANGED <<bktVars, cgFrame>>

\* what compact does with the plan: an empty plan returns (false, nil, nil);
\* otherwise the pre-compaction callback runs, and its error is returned
AfterPlanEmptyReruns(plan) ==
    IF plan = <<>>
    THEN InnerReturn(TRUE, <<>>, NoErr) /\ UNCHANGED dlTodo
    ELSE LET e == PreCompactionCallback(enableVerticalCompaction, plan)
         IN IF e # NoErr
            THEN /\ InnerReturn(FALSE, <<>>,
                                Wrap(e, "failed to run pre compaction callback for plan"))
                 /\ UNCHANGED dlTodo
            ELSE /\ dlTodo' = plan
                 /\ cpc' = "download"
                 /\ UNCHANGED cret

AfterPlan(plan) ==
    IF plan = <<>>
    THEN InnerReturn(FALSE, <<>>, NoErr) /\ UNCHANGED dlTodo
    ELSE LET e == PreCompactionCallback(enableVerticalCompaction, plan)
         IN IF e # NoErr
            THEN /\ InnerReturn(FALSE, <<>>,
                                Wrap(e, "failed to run pre compaction callback for plan"))
                 /\ UNCHANGED dlTodo
            ELSE /\ dlTodo' = plan
                 /\ cpc' = "download"
                 /\ UNCHANGED cret

\* compact: planner.Plan fails, or returns a plan
PlanCompaction ==
    /\ cpc = "plan"
    /\ plannerCalls' = plannerCalls + 1
    /\ \/ /\ planned' = "error"
          /\ InnerReturn(FALSE, <<>>, Wrap(NewErr("planner"), "plan compaction"))
          /\ UNCHANGED <<toCompact, dlTodo>>
       \/ \E plan \in Plans(metasByMinTime) :
             /\ planned' = IF plan = <<>> THEN "empty" ELSE "some"
             /\ toCompact' = plan
             /\ AfterPlan(plan)
    /\ UNCHANGED <<cgConf, overlappingBlocks, dlRunning, dlErr, dlCause, dlIn, downloads, cgOut>>
    /\ UNCHANGED <<cgMtx, subDir, cgHist>>
    /\ UNCHANGED <<bktVars, cgFrame>>

\* what one download task returns: block.Download, GatherIndexHealthStats,
\* then the diagnoses of the index in the order the code asks for them
\* a task that looks for Issue 347 before out-of-order chunks
DownloadTaskIssue347First(meta, dlOk, statsOk, diag, accept) ==
    IF ~dlOk THEN retry(Wrap(NewErr("download"), "download block"))
    ELSE IF ~statsOk THEN Wrap(NewErr("stats"), "gather index issues for block")
    ELSE IF "critical" \in diag
         THEN halt(Wrap(NewErr("critical"), "block with not healthy index found"))
    ELSE IF "i347" \in diag
         THEN issue347Error(Wrap(NewErr("i347"), "invalid, but reparable block"), meta.ulid)
    ELSE IF "ooo" \in diag
         THEN outOfOrderChunkError(
                  Wrap(NewErr("ooo"), "blocks with out-of-order chunks are dropped from compaction"),
                  meta.ulid)
    ELSE IF ~accept /\ "labels" \in diag
         THEN Wrap(NewErr("labels"), "try running with --debug.accept-malformed-index")
    ELSE NoErr

DownloadTask(meta, dlOk, statsOk, diag, accept) ==
    IF ~dlOk THEN retry(Wrap(NewErr("download"), "download block"))
    ELSE IF ~statsOk THEN Wrap(NewErr("stats"), "gather index issues for block")
    ELSE IF "critical" \in diag
         THEN halt(Wrap(NewErr("critical"), "block with not healthy index found"))
    ELSE IF "ooo" \in diag
         THEN outOfOrderChunkError(
                  Wrap(NewErr("ooo"), "blocks with out-of-order chunks are dropped from compaction"),
                  meta.ulid)
    ELSE IF "i347" \in diag
         THEN issue347Error(Wrap(NewErr("i347"), "invalid, but reparable block"), meta.ulid)
    ELSE IF ~accept /\ "labels" \in diag
         THEN Wrap(NewErr("labels"), "try running with --debug.accept-malformed-index")
    ELSE NoErr

Diagnoses == SUBSET {"critical", "ooo", "i347", "labels"}

\* how a task can go: the download fails; or the health stats cannot be
\* gathered; or they are gathered and hold any set of diagnoses
TaskRuns ==
    {[dlOk |-> FALSE, statsOk |-> FALSE, diag |-> {}],
     [dlOk |-> TRUE, statsOk |-> FALSE, diag |-> {}]}
    \cup {[dlOk |-> TRUE, statsOk |-> TRUE, diag |-> d] : d \in Diagnoses}

\* the loop over toCompact: g.Go starts the task of the next planned block,
\* once fewer than compactBlocksFetchConcurrency tasks are running
DownloadGo ==
    /\ cpc = "download"
    /\ dlTodo # <<>>
    /\ \/ compactBlocksFetchConcurrency < 0
       \/ Cardinality(dlRunning) < compactBlocksFetchConcurrency
    /\ dlRunning' = dlRunning \cup {Head(dlTodo)}
    /\ dlTodo' = Tail(dlTodo)
    /\ UNCHANGED <<cgConf, cgPlan, dlErr, dlCause, dlIn, downloads, cgOut>>
    /\ UNCHANGED <<cgMtx, cpc, subDir, cret, cgHist>>
    /\ UNCHANGED <<bktVars, cgFrame>>

\* a download task runs to its end; the errgroup keeps the first error
DownloadDone ==
    /\ cpc = "download"
    /\ \E meta \in dlRunning :
          \E run \in TaskRuns :
              LET e == DownloadTask(meta, run.dlOk, run.statsOk, run.diag,
                                    acceptMalformedIndex)
              IN /\ dlRunning' = dlRunning \ {meta}
                 /\ downloads' = downloads \cup {meta.ulid}
                 /\ IF e # NoErr /\ dlErr = NoErr
                    THEN dlErr' = e /\ dlCause' = meta.ulid /\ dlIn' = run
                    ELSE UNCHANGED <<dlErr, dlCause, dlIn>>
    /\ UNCHANGED <<cgConf, cgPlan, dlTodo, cgOut>>
    /\ UNCHANGED <<cgMtx, cpc, subDir, cret, cgHist>>
    /\ UNCHANGED <<bktVars, cgFrame>>

\* g.Wait(): every task was started and has ended
DownloadWait ==
    /\ cpc = "download"
    /\ dlTodo = <<>>
    /\ dlRunning = {}
    /\ IF dlErr # NoErr
       THEN InnerReturn(FALSE, <<>>, dlErr)
       ELSE cpc' = "merge" /\ UNCHANGED cret
    /\ UNCHANGED <<cgConf, cgPlan, cgDl, cgOut>>
    /\ UNCHANGED <<cgMtx, subDir, cgHist>>
    /\ UNCHANGED <<bktVars, cgFrame>>

\* Group.deleteBlock: the local directory is removed, and the block is
\* marked for deletion when the checker allows it.  out is how the call goes:
\* "ok", "veto" (CanDelete is false), "rmfail" (os.RemoveAll fails),
\* "markfail" (block.MarkForDeletion fails).
DeleteOutcomes == {"ok", "veto", "rmfail", "markfail"}

deleteBlockNeverMarks(bkt, id, out) ==
    IF out = "rmfail"
    THEN [err |-> Wrap(NewErr("rm"), "remove old block dir"), bkt |-> bkt]
    ELSE [err |-> NoErr, bkt |-> bkt]

deleteBlock(bkt, id, out) ==
    IF out = "rmfail"
    THEN [err |-> Wrap(NewErr("rm"), "remove old block dir"), bkt |-> bkt]
    ELSE IF out = "veto"
    THEN [err |-> NoErr, bkt |-> bkt]
    ELSE IF out = "markfail"
    THEN [err |-> Wrap(NewErr("mark"), "mark block for deletion from bucket"), bkt |-> bkt]
    ELSE [err |-> NoErr, bkt |-> MarkForDeletion(bkt, id, "source of compacted block")]

\* a compact that goes to the deletion marks as soon as the merge is done
CompactBlocksThenMark ==
    /\ cpc = "merge"
    /\ mergeCalls' = mergeCalls + 1
    /\ \E n \in 1 .. MaxResults : compIDs' = [k \in 1 .. n |-> NCgBlocks + k]
    /\ merged' = "some"
    /\ cpc' = "mark"
    /\ mi' = 1
    /\ UNCHANGED <<ri, cret>>
    /\ UNCHANGED <<cgConf, cgPlan, cgDl, uploads, cgDel>>
    /\ UNCHANGED <<cgMtx, subDir, cgHist>>
    /\ UNCHANGED <<bktVars, cgFrame>>

\* compact: GetBlockPopulator and the low-level compactor.  An error of
\* either halts; otherwise the compactor returns the IDs of 0..MaxResults
\* new blocks.
CompactBlocks ==
    /\ cpc = "merge"
    /\ \/ /\ InnerReturn(FALSE, <<>>, halt(Wrap(NewErr("populator"), "compact blocks")))
          /\ UNCHANGED <<compIDs, ri, mi, mergeCalls, merged>>
       \/ /\ mergeCalls' = mergeCalls + 1
          /\ merged' = "error"
          /\ InnerReturn(FALSE, <<>>, halt(Wrap(NewErr("compactor"), "compact blocks")))
          /\ UNCHANGED <<compIDs, ri, mi>>
       \/ /\ mergeCalls' = mergeCalls + 1
          /\ \E n \in 0 .. MaxResults :
                /\ compIDs' = [k \in 1 .. n |-> NCgBlocks + k]
                /\ IF n = 0
                   THEN merged' = "empty" /\ cpc' = "empty" /\ mi' = 1 /\ UNCHANGED ri
                   ELSE merged' = "some" /\ cpc' = "result" /\ ri' = 1 /\ UNCHANGED mi
          /\ UNCHANGED cret
    /\ UNCHANGED <<cgConf, cgPlan, cgDl, uploads, cgDel>>
    /\ UNCHANGED <<cgMtx, subDir, cgHist>>
    /\ UNCHANGED <<bktVars, cgFrame>>

\* compact, no result block: one iteration of the loop that deletes the
\* planned blocks without samples; deleteBlock's error is only logged.
\* After the last iteration compact returns (true, nil, nil).
SourceHasNoSamplesAlways(meta) == TRUE

\* meta.Stats.NumSamples == 0
SourceHasNoSamples(meta) == meta.numSamples = 0

DeleteEmptySource ==
    /\ cpc = "empty"
    /\ LET meta == toCompact[mi]
       IN IF SourceHasNoSamples(meta)
          THEN \E out \in DeleteOutcomes :
                   /\ bktDelMarks' = deleteBlock(bktDelMarks, meta.ulid, out).bkt
                   /\ cgDel' = Append(cgDel, <<meta.ulid, out>>)
          ELSE UNCHANGED <<bktDelMarks, cgDel>>
    /\ IF mi = Len(toCompact)
       THEN InnerReturn(TRUE, <<>>, NoErr) /\ UNCHANGED mi
       ELSE mi' = mi + 1 /\ UNCHANGED <<cpc, cret>>
    /\ UNCHANGED <<cgConf, cgPlan, cgDl, compIDs, ri, uploads, mergeCalls, merged>>
    /\ UNCHANGED <<cgMtx, subDir, cgHist>>
    /\ UNCHANGED <<bktRest, cgFrame>>

\* the time ranges the meta.json of a result block may hold: the range of
\* the whole plan or the range of the first planned block
ResultRanges(plan) ==
    LET lo == CHOOSE t \in {plan[i].minTime : i \in DOMAIN plan} :
                  \A i \in DOMAIN plan : t <= plan[i].minTime
        hi == CHOOSE t \in {plan[i].maxTime : i \in DOMAIN plan} :
                  \A i \in DOMAIN plan : t >= plan[i].maxTime
    IN {<<lo, hi>>, <<plan[1].minTime, plan[1].maxTime>>}

ResultMeta(id, rng, plan) ==
    Meta(id, rng[1], rng[2], 1, 0, 10, UNION {plan[i].sources : i \in DOMAIN plan})

ResultOutcomes ==
    {"ok", "tombstones", "readmeta", "badindex", "inject", "uploadfail", "postfail"}

\* the error with which compact gives up on a result block before its
\* upload; NoErr when the block goes on to the upload
ResultCheck(out, newMeta) ==
    IF out = "tombstones" THEN Wrap(NewErr("rm"), "remove tombstones")
    ELSE IF out = "readmeta" THEN Wrap(NewErr("read"), "read new meta")
    ELSE IF out = "badindex" /\ ~acceptMalformedIndex
         THEN halt(Wrap(NewErr("index"), "invalid result block"))
    ELSE IF out = "inject" THEN Wrap(NewErr("inject"), "failed to finalize the block")
    ELSE IF ~enableVerticalCompaction
            /\ areBlocksOverlapping(metasByMinTime, {newMeta}, toCompact)
         THEN halt(Wrap(NewErr("overlaps found while gathering blocks"),
                        "resulted compacted block overlaps with something"))
    ELSE NoErr

UploadedInPlaceOfAll(objs, ids) == ids

\* block.Upload: the bucket's block objects once the blocks ids are uploaded
Uploaded(objs, ids) == objs \cup ids

\* compact: one iteration of the loop over compIDs.  The result block is
\* validated, uploaded, and the post-compaction callback runs.
ProcessResult ==
    /\ cpc = "result"
    /\ \E out \in ResultOutcomes, rng \in ResultRanges(toCompact) :
          LET newMeta == ResultMeta(compIDs[ri], rng, toCompact)
              e == ResultCheck(out, newMeta)
          IN IF e # NoErr
             THEN /\ InnerReturn(FALSE, <<>>, e)
                  /\ UNCHANGED <<uploads, ri, mi>>
             ELSE IF out = "uploadfail"
             THEN /\ InnerReturn(FALSE, <<>>, retry(Wrap(NewErr("upload"), "upload failed")))
                  /\ UNCHANGED <<uploads, ri, mi>>
             ELSE /\ uploads' = Append(uploads, newMeta)
                  /\ IF out = "postfail"
                     THEN /\ InnerReturn(FALSE, <<>>,
                                  retry(Wrap(NewErr("callback"),
                                     "failed to run post compaction callback for result block")))
                          /\ UNCHANGED <<ri, mi>>
                     ELSE IF ri = Len(compIDs)
                     THEN cpc' = "mark" /\ mi' = 1 /\ UNCHANGED <<ri, cret>>
                     ELSE ri' = ri + 1 /\ UNCHANGED <<mi, cpc, cret>>
    /\ bktBlocks' = Uploaded(bktBlocks, {uploads'[i].ulid : i \in DOMAIN uploads'})
    /\ UNCHANGED <<cgConf, cgPlan, cgDl, compIDs, cgDel, mergeCalls, merged>>
    /\ UNCHANGED <<cgMtx, subDir, cgHist>>
    /\ UNCHANGED <<bktDelMarks, bktNoCompactMarks, cgFrame>>

\* compact: one iteration of the loop that marks the planned blocks for
\* deletion; deleteBlock's error ends compact with a retry error.  After the
\* last iteration compact returns (true, compIDs, nil).
MarkSource ==
    /\ cpc = "mark"
    /\ \E out \in DeleteOutcomes :
          LET meta == toCompact[mi]
              r == deleteBlock(bktDelMarks, meta.ulid, out)
          IN /\ cgDel' = Append(cgDel, <<meta.ulid, out>>)
             /\ bktDelMarks' = r.bkt
             /\ IF r.err # NoErr
                THEN /\ InnerReturn(FALSE, <<>>,
                             retry(Wrap(r.err, "mark old block for deletion from bucket")))
                     /\ UNCHANGED mi
                ELSE IF mi = Len(toCompact)
                THEN InnerReturn(TRUE, compIDs, NoErr) /\ UNCHANGED mi
                ELSE mi' = mi + 1 /\ UNCHANGED <<cpc, cret>>
    /\ UNCHANGED <<cgConf, cgPlan, cgDl, compIDs, ri, uploads, mergeCalls, merged>>
    /\ UNCHANGED <<cgMtx, subDir, cgHist>>
    /\ UNCHANGED <<bktRest, cgFrame>>

\* a return whose deferred function removes the work directory whatever
\* the error is
CompactReturnAlwaysRemoves ==
    /\ cpc = "unwind"
    /\ cgMtx' = FALSE
    /\ cpc' = "done"
    /\ cret' = IF cret.err # NoErr
               THEN [shouldRerun |-> FALSE, compIDs |-> <<>>, err |-> cret.err]
               ELSE cret
    /\ \E rmOk \in BOOLEAN :
          /\ subDir' = IF rmOk THEN "absent" ELSE "present"
          /\ rmAll' = IF rmOk THEN "ok" ELSE "failed"
    /\ UNCHANGED <<cgConf, cgPlan, cgDl, cgOut, cgBkt0, cgMetas0, panicAt, cgIDs>>
    /\ UNCHANGED <<bktVars, cgFrame>>

\* compact's deferred Unlock, then Compact's return and its deferred
\* os.RemoveAll(subDir), which runs only without an error and whose own
\* failure is only logged
CompactReturn ==
    /\ cpc = "unwind"
    /\ cgMtx' = FALSE
    /\ cpc' = "done"
    /\ IF cret.err # NoErr
       THEN /\ cret' = [shouldRerun |-> FALSE, compIDs |-> <<>>, err |-> cret.err]
            /\ UNCHANGED <<subDir, rmAll>>
       ELSE /\ UNCHANGED cret
            /\ \E rmOk \in BOOLEAN :
                  /\ subDir' = IF rmOk THEN "absent" ELSE "present"
                  /\ rmAll' = IF rmOk THEN "ok" ELSE "failed"
    /\ UNCHANGED <<cgConf, cgPlan, cgDl, cgOut, cgBkt0, cgMetas0, panicAt, cgIDs>>
    /\ UNCHANGED <<bktVars, cgFrame>>

InitGroup == GroupInit /\ SyncerInit /\ SyncInit /\ GCOff /\ GrouperOff /\ BCOff /\ PureOff

NextGroup ==
    \/ CompactStart
    \/ OverlapCheck
    \/ PlanCompaction
    \/ DownloadGo
    \/ DownloadDone
    \/ DownloadWait
    \/ CompactBlocks
    \/ DeleteEmptySource
    \/ ProcessResult
    \/ MarkSource
    \/ CompactReturn

SpecGroup == InitGroup /\ [][NextGroup]_vars

(***************************************************************************)
(* Panics during Group.Compact (specification SpecGroupPanic: the steps of *)
(* SpecGroup, and a panic in the code Compact calls).  Compact's deferred  *)
(* recover() catches a panic of the goroutine that runs Compact, once the  *)
(* work directory exists.  A download task runs on a goroutine of its own, *)
(* started by the errgroup: nothing recovers a panic there, and the        *)
(* process ends.                                                           *)
(***************************************************************************)
\* Group.IDs(): the IDs of the group's metas in ascending order
RECURSIVE SortIDs(_)
SortIDs(ids) ==
    IF ids = {} THEN <<>>
    ELSE LET m == CHOOSE x \in ids : \A y \in ids : x <= y
         IN <<m>> \o SortIDs(ids \ {m})

\* the error of the recover handler
PanicError == NewErr("panicked while compacting")

\* the planner, the compactor, a callback, an upload or deleteBlock panics:
\* compact's deferred Unlock runs, then the recover handler of Compact reads
\* cg.IDs() and sets rerr; the deferred RemoveAll sees the error and leaves
\* the work directory
PanicInCompact ==
    /\ cpc \in {"plan", "merge", "empty", "result", "mark"}
    /\ panicAt' = "compact"
    /\ cgMtx' = FALSE
    /\ cgIDs' = SortIDs({metasByMinTime[j].ulid : j \in DOMAIN metasByMinTime})
    /\ cret' = [shouldRerun |-> FALSE, compIDs |-> <<>>, err |-> PanicError]
    /\ cpc' = "done"
    /\ UNCHANGED <<cgConf, cgPlan, cgDl, cgOut, subDir, cgBkt0, cgMetas0, rmAll>>
    /\ UNCHANGED <<bktVars, cgFrame>>

\* block.Download or block.GatherIndexHealthStats panics in a download
\* task: the panic is raised on the errgroup's goroutine, where no recover
\* is deferred, and ends the process; Compact does not return
PanicInDownload ==
    /\ cpc = "download"
    /\ dlRunning # {}
    /\ panicAt' = "download"
    /\ cpc' = "crashed"
    /\ UNCHANGED <<cgConf, cgPlan, cgDl, cgOut, cgMtx, subDir, cret, cgBkt0, cgMetas0, cgIDs,
                   rmAll>>
    /\ UNCHANGED <<bktVars, cgFrame>>

NextGroupPanic ==
    \/ NextGroup
    \/ PanicInCompact
    \/ PanicInDownload

SpecGroupPanic == InitGroup /\ [][NextGroupPanic]_vars

\* C18: a panic raised while compacting a group does not propagate out of
\* Group.Compact: Compact returns a non-nil error that is not retry-class
\* and names every block ID of the group, and the group's mutex is
\* released.
C18_PanicContained ==
    panicAt # "none"
        => /\ cpc = "done"
           /\ cret.err # NoErr
           /\ ~IsRetryError(cret.err)
           /\ Range(cgIDs) = {metasByMinTime[j].ulid : j \in DOMAIN metasByMinTime}
           /\ ~cgMtx

\* the part of C18 that holds: a panic on the goroutine that runs Compact
PanicInCompactContained ==
    panicAt = "compact"
        => /\ cpc = "done"
           /\ cret = [shouldRerun |-> FALSE, compIDs |-> <<>>, err |-> PanicError]
           /\ ~IsRetryError(cret.err) /\ ~IsHaltError(cret.err)
           /\ Range(cgIDs) = {metasByMinTime[j].ulid : j \in DOMAIN metasByMinTime}
           /\ ~cgMtx
           /\ subDir = "present"

(***************************************************************************)
(* Claims about Group.Compact (checked under SpecGroup).                   *)
(***************************************************************************)
\* two blocks' time ranges [minTime, maxTime) have a point in common
RangesIntersect(a, b) == a.minTime < b.maxTime /\ b.minTime < a.maxTime

PairwiseDisjoint(metas) ==
    \A a, b \in metas : a # b => ~RangesIntersect(a, b)

Returned == cpc = "done"

ReturnedSuccess == Returned /\ cret.err = NoErr

\* the blocks of the group that are left after the call: the metas that were
\* not compacted, and the result blocks
Survivors == (Range(metasByMinTime) \ Range(toCompact)) \cup Range(uploads)

\* the IDs that got a deletion marker during the call
MarkedThisCall == (DOMAIN bktDelMarks) \ (DOMAIN cgBkt0)

\* deleteBlock's outcome for block id; "none" when it was not called for it
DeleteOutcomeOf(id) ==
    IF \E i \in DOMAIN cgDel : cgDel[i][1] = id
    THEN cgDel[CHOOSE i \in DOMAIN cgDel : cgDel[i][1] = id][2]
    ELSE "none"

PlannedIDs == {toCompact[i].ulid : i \in DOMAIN toCompact}

\* C5: with vertical compaction disabled, when Compact returns successfully
\* with result blocks, the surviving blocks of the group (its metas minus
\* the compacted sources, plus all result blocks) have pairwise disjoint
\* time ranges.  The code checks each result block against the surviving
\* metas only, so two result blocks of one call may overlap, and the
\* statement does not hold.
C5_SurvivorsPairwiseDisjoint ==
    (ReturnedSuccess /\ ~enableVerticalCompaction /\ cret.compIDs # <<>>)
        => PairwiseDisjoint(Survivors)

\* C6 as stated: on success with at least one result block, every planned
\* input got, during the call, a deletion marker with the reason "source of
\* compacted block".  Violated: the checker may veto the deletion, and a
\* block that already has a marker keeps it.
C6_EveryInputMarkedThisCall ==
    (ReturnedSuccess /\ cret.compIDs # <<>>)
        => \A id \in PlannedIDs :
               /\ id \in MarkedThisCall
               /\ bktDelMarks[id] = "source of compacted block"

\* C6 amended: on success with at least one result block, deleteBlock ran
\* without error for every planned input; every planned input the checker
\* allowed to delete has a deletion marker in the bucket, and that marker has
\* the reason "source of compacted block" unless the block had a marker
\* before the call; a vetoed input gets no marker; nothing else is marked.
C6_AllowedInputsMarked ==
    (ReturnedSuccess /\ cret.compIDs # <<>>)
        => /\ \A id \in PlannedIDs :
                 /\ DeleteOutcomeOf(id) \in {"ok", "veto"}
                 /\ DeleteOutcomeOf(id) = "ok" => id \in DOMAIN bktDelMarks
                 /\ DeleteOutcomeOf(id) = "veto" => id \notin MarkedThisCall
           /\ MarkedThisCall \subseteq PlannedIDs
           /\ \A id \in MarkedThisCall : bktDelMarks[id] = "source of compacted block"
           /\ \A id \in DOMAIN cgBkt0 : id \in DOMAIN bktDelMarks /\ bktDelMarks[id] = cgBkt0[id]

\* a successful call with a result block in which one planned input was
\* marked during the call and another one was vetoed by the checker
C6_Witness ==
    /\ ReturnedSuccess
    /\ cret.compIDs # <<>>
    /\ \E id \in PlannedIDs : DeleteOutcomeOf(id) = "ok" /\ id \in MarkedThisCall
    /\ \E id \in PlannedIDs : DeleteOutcomeOf(id) = "veto"

GroupHasOverlap ==
    \E i, j \in DOMAIN metasByMinTime :
        i # j /\ RangesIntersect(metasByMinTime[i], metasByMinTime[j])

NoPlanNoIO ==
    /\ plannerCalls = 0
    /\ downloads = {}
    /\ mergeCalls = 0
    /\ uploads = <<>>
    /\ cgDel = <<>>
    /\ bktDelMarks = cgBkt0

\* C7 as stated: with vertical compaction disabled and two metas of the
\* group overlapping, Compact returns a halt error "pre compaction overlap
\* check" without planning, downloading, merging, uploading or marking.
\* Violated: when os.MkdirAll fails Compact returns that error, which is no
\* halt error, before the overlap check.
C7_OverlapHalts ==
    (Returned /\ ~enableVerticalCompaction /\ GroupHasOverlap)
        => /\ IsHaltError(cret.err)
           /\ "pre compaction overlap check" \in Messages(cret.err)
           /\ NoPlanNoIO

\* C7 amended: with vertical compaction disabled and two metas of the group
\* overlapping, Compact never plans, downloads, merges, uploads or marks;
\* when the work directory could be created it returns a halt error "pre
\* compaction overlap check", and otherwise the error of os.MkdirAll, which
\* is not a halt error.
C7_OverlapHaltsOnceDirCreated ==
    (Returned /\ ~enableVerticalCompaction /\ GroupHasOverlap)
        => /\ NoPlanNoIO
           /\ cret.shouldRerun = FALSE
           /\ cret.compIDs = <<>>
           /\ IF subDir = "present"
              THEN /\ IsHaltError(cret.err)
                   /\ "pre compaction overlap check" \in Messages(cret.err)
              ELSE /\ ~IsHaltError(cret.err)
                   /\ "create compaction group dir" \in Messages(cret.err)

\* a call on a group with overlapping metas, vertical compaction disabled,
\* that returned the halt error
C7_Witness ==
    /\ Returned
    /\ ~enableVerticalCompaction
    /\ GroupHasOverlap
    /\ subDir = "present"
    /\ IsHaltError(cret.err)

\* C8: when the planner returns an empty plan, Compact returns
\* (shouldRerun = false, no IDs, nil), downloads nothing, uploads nothing,
\* writes no marker, and leaves the metas of the group as they were.
C8_EmptyPlanNoWork ==
    (planned = "empty")
        => /\ downloads = {}
           /\ mergeCalls = 0
           /\ uploads = <<>>
           /\ cgDel = <<>>
           /\ bktDelMarks = cgBkt0
           /\ metasByMinTime = cgMetas0
           /\ Returned => cret = NoReturn

\* a call on a group with blocks, without overlap, whose plan was empty
C8_Witness ==
    /\ Returned
    /\ planned = "empty"
    /\ plannerCalls = 1
    /\ ~GroupHasOverlap
    /\ cret = NoReturn

ZeroResults == Returned /\ merged = "empty"

\* C9 as stated: when the low-level compactor returns no block, Compact
\* uploads nothing, marks for deletion every planned input without samples
\* and no planned input with samples, and returns (true, no IDs, nil).
\* Violated: deleteBlock's error is only logged and the checker may veto, so
\* an input without samples may stay unmarked.
C9_ZeroResultsMarkAllEmpty ==
    ZeroResults
        => /\ uploads = <<>>
           /\ cret = [shouldRerun |-> TRUE, compIDs |-> <<>>, err |-> NoErr]
           /\ \A i \in DOMAIN toCompact :
                 IF toCompact[i].numSamples = 0
                 THEN toCompact[i].ulid \in DOMAIN bktDelMarks
                 ELSE toCompact[i].ulid \notin MarkedThisCall

\* C9 amended: when the low-level compactor returns no block, Compact
\* uploads nothing and returns (true, no IDs, nil); deleteBlock is called
\* for the planned inputs without samples and for no other block; such an
\* input has a deletion marker when the checker allowed the deletion and
\* deleteBlock did not fail; no other block gets a marker, and markers
\* written before the call stay.
C9_ZeroResultsMarkDeletableEmpty ==
    ZeroResults
        => /\ uploads = <<>>
           /\ cret = [shouldRerun |-> TRUE, compIDs |-> <<>>, err |-> NoErr]
           /\ \A i \in DOMAIN toCompact :
                 LET m == toCompact[i]
                 IN IF m.numSamples = 0
                    THEN /\ DeleteOutcomeOf(m.ulid) # "none"
                         /\ DeleteOutcomeOf(m.ulid) = "ok" => m.ulid \in DOMAIN bktDelMarks
                         /\ DeleteOutcomeOf(m.ulid) # "ok" => m.ulid \notin MarkedThisCall
                    ELSE /\ DeleteOutcomeOf(m.ulid) = "none"
                         /\ m.ulid \notin MarkedThisCall
           /\ MarkedThisCall \subseteq PlannedIDs
           /\ \A id \in MarkedThisCall : bktDelMarks[id] = "source of compacted block"
           /\ \A id \in DOMAIN cgBkt0 : id \in DOMAIN bktDelMarks /\ bktDelMarks[id] = cgBkt0[id]

\* the compactor returned no block for a plan with an input without samples
\* that was marked, one that stayed unmarked, and an input with samples
C9_Witness ==
    /\ ZeroResults
    /\ \E i \in DOMAIN toCompact :
          toCompact[i].numSamples = 0 /\ toCompact[i].ulid \in MarkedThisCall
    /\ \E i \in DOMAIN toCompact :
          /\ toCompact[i].numSamples = 0
          /\ DeleteOutcomeOf(toCompact[i].ulid) \in {"veto", "rmfail", "markfail"}
    /\ \E i \in DOMAIN toCompact : toCompact[i].numSamples > 0

(***************************************************************************)
(* BucketCompactor.Compact: the passes, the sender loop and the workers.   *)
(* SyncMetas, GarbageCollect, Groups and Group.Compact are taken by what   *)
(* they return.                                                            *)
(***************************************************************************)
\* most groups the grouper returns in one pass
NBcGroups == 2

\* the passes of one Compact call are counted up to MaxPasses; the passes
\* after that count as pass MaxPasses
MaxPasses == 2

\* group number k of a pass, holding n blocks
BcGroup(k, n) ==
    [key |-> k, labels |-> k, resolution |-> 0,
     metasByMinTime |-> [j \in 1 .. n |-> Meta(10 * k + j, 2 * j - 2, 2 * j, k, 0, 10, {10 * k + j})]]

\* what grouper.Groups may return without error: up to NBcGroups groups of
\* one or two blocks
BcGroupings ==
    UNION {{[k \in 1 .. n |-> BcGroup(k, sizes[k])] : sizes \in [1 .. n -> {1, 2}]} :
               n \in 0 .. NBcGroups}

\* what Group.Compact on the group g may return to a worker; a broken block
\* is the first block of the group
GroupErrors(g) ==
    { halt(Wrap(NewErr("compactor"), "compact blocks")),
      retry(Wrap(NewErr("download"), "download block")),
      issue347Error(Wrap(NewErr("i347"), "invalid, but reparable block"),
                    g.metasByMinTime[1].ulid),
      outOfOrderChunkError(
          Wrap(NewErr("ooo"), "blocks with out-of-order chunks are dropped from compaction"),
          g.metasByMinTime[1].ulid),
      Wrap(NewErr("planner"), "plan compaction") }

CompactOutcomes(g) ==
    {[shouldRerun |-> r, err |-> NoErr] : r \in BOOLEAN}
        \cup {[shouldRerun |-> FALSE, err |-> e] : e \in GroupErrors(g)}

BCInit ==
    /\ skipBlocksWithOutOfOrderChunks \in BOOLEAN
    /\ bktDelMarks = <<>>
    /\ bktNoCompactMarks = {}
    /\ bktBlocks = {10 * k + j : k \in 1 .. NBcGroups, j \in {1, 2}}
    /\ bpc = "start"
    /\ bcPass = 1
    /\ bcGroups = <<>>
    /\ gi = 0
    /\ groupChanClosed = FALSE
    /\ errChan = <<>>
    /\ wpc = [w \in Workers |-> "none"]
    /\ wgrp = [w \in Workers |-> 0]
    /\ werr = [w \in Workers |-> NoErr]
    /\ finishedAllGroups = TRUE
    /\ groupErrs = <<>>
    /\ bret = NoErr
    /\ bcInvoked = <<>>
    /\ wout = [w \in Workers |-> NoErr]
    /\ whelp = [w \in Workers |-> "none"]
    /\ bcMore = {}
    /\ bcPublished = <<>>
    /\ workCtxDone = FALSE
    /\ bcSteps = <<>>

\* the head of the outer loop: fresh channels and flags, and c.concurrency
\* workers are started, each ranging over groupChan
PassStart ==
    /\ bpc = "start"
    /\ bpc' = "sync"
    /\ bcGroups' = <<>>
    /\ gi' = 0
    /\ groupChanClosed' = FALSE
    /\ errChan' = <<>>
    /\ wpc' = [w \in Workers |-> "waiting"]
    /\ wgrp' = [w \in Workers |-> 0]
    /\ werr' = [w \in Workers |-> NoErr]
    /\ finishedAllGroups' = TRUE
    /\ groupErrs' = <<>>
    /\ bcInvoked' = <<>>
    /\ wout' = [w \in Workers |-> NoErr]
    /\ whelp' = [w \in Workers |-> "none"]
    /\ bcMore' = {}
    /\ bcPublished' = <<>>
    /\ workCtxDone' = FALSE
    /\ bcSteps' = <<>>
    /\ UNCHANGED <<skipBlocksWithOutOfOrderChunks, bcPass, bret>>
    /\ UNCHANGED bcFrame

\* a pass that goes on to GarbageCollect whatever SyncMetas returned
PassSyncIgnoresError ==
    /\ bpc = "sync"
    /\ bpc' = "gc"
    /\ \/ bcSteps' = Append(bcSteps, "sync")
       \/ UNCHANGED bcSteps
    /\ UNCHANGED <<bret, workCtxDone>>
    /\ UNCHANGED <<skipBlocksWithOutOfOrderChunks, bcPass, bcGroups, gi, groupChanClosed,
                   errChan, wpc, wgrp, werr, finishedAllGroups, groupErrs, bcInvoked>>
    /\ UNCHANGED bcHist
    /\ UNCHANGED bcFrame

\* c.sy.SyncMetas(ctx); its error ends Compact
PassSync ==
    /\ bpc = "sync"
    /\ \/ /\ bpc' = "gc"
          /\ bcSteps' = Append(bcSteps, "sync")
          /\ UNCHANGED <<bret, workCtxDone>>
       \/ /\ bpc' = "done"
          /\ bret' = Wrap(retry(NewErr("fetch")), "sync")
          /\ workCtxDone' = TRUE
          /\ UNCHANGED bcSteps
    /\ UNCHANGED <<skipBlocksWithOutOfOrderChunks, bcPass, bcGroups, gi, groupChanClosed,
                   errChan, wpc, wgrp, werr, finishedAllGroups, groupErrs, bcInvoked>>
    /\ UNCHANGED bcHist
    /\ UNCHANGED bcFrame

\* c.sy.GarbageCollect(ctx); its error ends Compact
PassGarbageCollect ==
    /\ bpc = "gc"
    /\ \/ /\ bpc' = "group"
          /\ bcSteps' = Append(bcSteps, "gc")
          /\ UNCHANGED <<bret, workCtxDone>>
       \/ /\ bpc' = "done"
          /\ bret' = Wrap(retry(NewErr("mark")), "garbage")
          /\ workCtxDone' = TRUE
          /\ UNCHANGED bcSteps
    /\ UNCHANGED <<skipBlocksWithOutOfOrderChunks, bcPass, bcGroups, gi, groupChanClosed,
                   errChan, wpc, wgrp, werr, finishedAllGroups, groupErrs, bcInvoked>>
    /\ UNCHANGED bcHist
    /\ UNCHANGED bcFrame

\* c.grouper.Groups(c.sy.Metas()); its error ends Compact
PassGroups ==
    /\ bpc = "group"
    /\ \/ \E gs \in BcGroupings :
             /\ bcGroups' = gs
             /\ gi' = 1
             /\ bpc' = "send"
             /\ bcSteps' = Append(bcSteps, "groups")
             /\ UNCHANGED <<bret, workCtxDone>>
       \/ /\ bpc' = "done"
          /\ bret' = Wrap(NewErr("group"), "build compaction groups")
          /\ workCtxDone' = TRUE
          /\ UNCHANGED <<bcGroups, gi, bcSteps>>
    /\ UNCHANGED <<skipBlocksWithOutOfOrderChunks, bcPass, groupChanClosed, errChan, wpc,
                   wgrp, werr, finishedAllGroups, groupErrs, bcInvoked>>
    /\ UNCHANGED bcHist
    /\ UNCHANGED bcFrame

SkipGroupNever(g) == FALSE

\* the sender ignores a group: len(g.IDs()) == 1
SkipGroup(g) == Cardinality(IDs(g)) = 1

\* the sender loop is at a group it ignores
SenderSkip ==
    /\ bpc = "send"
    /\ gi <= Len(bcGroups)
    /\ SkipGroup(bcGroups[gi])
    /\ gi' = gi + 1
    /\ UNCHANGED <<skipBlocksWithOutOfOrderChunks, bpc, bcPass, bcGroups, groupChanClosed,
                   errChan, wpc, wgrp, werr, finishedAllGroups, groupErrs, bret, bcInvoked>>
    /\ UNCHANGED bcHist
    /\ UNCHANGED bcFrame
    /\ UNCHANGED bcCtl

SenderReceiveErrorGoesOn ==
    /\ bpc = "send"
    /\ gi <= Len(bcGroups)
    /\ ~SkipGroup(bcGroups[gi])
    /\ errChan # <<>>
    /\ groupErrs' = Append(groupErrs, Head(errChan))
    /\ errChan' = Tail(errChan)
    /\ UNCHANGED <<skipBlocksWithOutOfOrderChunks, bpc, bcPass, bcGroups, gi, groupChanClosed,
                   wpc, wgrp, werr, finishedAllGroups, bret, bcInvoked>>
    /\ UNCHANGED bcHist
    /\ UNCHANGED bcFrame
    /\ UNCHANGED bcCtl

\* the select of the sender loop takes an error from errChan: the loop ends
SenderReceiveError ==
    /\ bpc = "send"
    /\ gi <= Len(bcGroups)
    /\ ~SkipGroup(bcGroups[gi])
    /\ errChan # <<>>
    /\ groupErrs' = Append(groupErrs, Head(errChan))
    /\ errChan' = Tail(errChan)
    /\ bpc' = "close"
    /\ UNCHANGED <<skipBlocksWithOutOfOrderChunks, bcPass, bcGroups, gi, groupChanClosed, wpc,
                   wgrp, werr, finishedAllGroups, bret, bcInvoked>>
    /\ UNCHANGED bcHist
    /\ UNCHANGED bcFrame
    /\ UNCHANGED bcCtl

\* a sender that offers the same group again after a worker took it
DispatchSameGroupAgain(w) ==
    /\ bpc = "send"
    /\ gi <= Len(bcGroups)
    /\ ~SkipGroup(bcGroups[gi])
    /\ wpc[w] = "waiting"
    /\ wpc' = [wpc EXCEPT ![w] = "compacting"]
    /\ wgrp' = [wgrp EXCEPT ![w] = gi]
    /\ bcInvoked' = Append(bcInvoked, gi)
    /\ \/ gi' = gi + 1
       \/ Len(bcInvoked) < NBcGroups /\ UNCHANGED gi
    /\ wout' = [wout EXCEPT ![w] = NoErr]
    /\ whelp' = [whelp EXCEPT ![w] = "none"]
    /\ UNCHANGED <<skipBlocksWithOutOfOrderChunks, bpc, bcPass, bcGroups, groupChanClosed,
                   errChan, werr, finishedAllGroups, groupErrs, bret>>
    /\ UNCHANGED <<bcMore, bcPublished>>
    /\ UNCHANGED bcFrame
    /\ UNCHANGED bcCtl

\* the select of the sender loop hands the group to a worker that waits on
\* groupChan (the channel has no buffer); the worker calls g.Compact
Dispatch(w) ==
    /\ bpc = "send"
    /\ gi <= Len(bcGroups)
    /\ ~SkipGroup(bcGroups[gi])
    /\ wpc[w] = "waiting"
    /\ wpc' = [wpc EXCEPT ![w] = "compacting"]
    /\ wgrp' = [wgrp EXCEPT ![w] = gi]
    /\ bcInvoked' = Append(bcInvoked, gi)
    /\ gi' = gi + 1
    /\ wout' = [wout EXCEPT ![w] = NoErr]
    /\ whelp' = [whelp EXCEPT ![w] = "none"]
    /\ UNCHANGED <<skipBlocksWithOutOfOrderChunks, bpc, bcPass, bcGroups, groupChanClosed,
                   errChan, werr, finishedAllGroups, groupErrs, bret>>
    /\ UNCHANGED <<bcMore, bcPublished>>
    /\ UNCHANGED bcFrame
    /\ UNCHANGED bcCtl

\* the sender loop is over (all groups visited, or left by break):
\* close(groupChan)
SenderClose ==
    /\ \/ bpc = "send" /\ gi > Len(bcGroups)
       \/ bpc = "close"
    /\ groupChanClosed' = TRUE
    /\ bpc' = "wait"
    /\ UNCHANGED <<skipBlocksWithOutOfOrderChunks, bcPass, bcGroups, gi, errChan, wpc, wgrp,
                   werr, finishedAllGroups, groupErrs, bret, bcInvoked>>
    /\ UNCHANGED bcHist
    /\ UNCHANGED bcFrame
    /\ UNCHANGED bcCtl

RecoveredNever(err, helpOk) == FALSE

MarksNoCompactNever(err) == FALSE

MarksNoCompactAlways(err) == IsOutOfOrderChunkError(err)

\* IsOutOfOrderChunkError(err) && c.skipBlocksWithOutOfOrderChunks: the worker
\* answers the error with a no-compact marker
MarksNoCompact(err) ==
    IsOutOfOrderChunkError(err) /\ skipBlocksWithOutOfOrderChunks

\* what the worker does with the error of g.Compact: TRUE when it goes on
\* with the next group (the repair, or the no-compact marker, succeeded)
Recovered(err, helpOk) ==
    \/ IsIssue347Error(err) /\ helpOk
    \/ MarksNoCompact(err) /\ helpOk

\* RepairIssue347 by how it goes (out): the error it returns, whether the
\* repaired block was uploaded and whether the broken block was marked for
\* deletion
RepairOutcomes ==
    {"ok", "tmpdir", "download", "readmeta", "repair", "verify", "upload", "mark"}

RepairResult(err, upload, mark) == [err |-> err, upload |-> upload, mark |-> mark]

RepairIssue347(issue347Err, out) ==
    IF CauseType(issue347Err) # "i347"
    THEN RepairResult(NewErr("Given error is not an issue347 error"), FALSE, FALSE)
    ELSE IF out = "tmpdir" THEN RepairResult(NewErr("mkdirtemp"), FALSE, FALSE)
    ELSE IF out = "download"
    THEN RepairResult(retry(Wrap(NewErr("download"), "download block")), FALSE, FALSE)
    ELSE IF out = "readmeta"
    THEN RepairResult(Wrap(NewErr("read"), "read meta from"), FALSE, FALSE)
    ELSE IF out = "repair"
    THEN RepairResult(Wrap(NewErr("repair"), "repair failed for block"), FALSE, FALSE)
    ELSE IF out = "verify"
    THEN RepairResult(Wrap(NewErr("verify"), "repaired block is invalid"), FALSE, FALSE)
    ELSE IF out = "upload"
    THEN RepairResult(retry(Wrap(NewErr("upload"), "upload failed")), FALSE, FALSE)
    ELSE IF out = "mark"
    THEN RepairResult(Wrap(NewErr("mark"), "marking old block for deletion has failed"),
                      TRUE, FALSE)
    ELSE RepairResult(NoErr, TRUE, TRUE)

\* the ID block.Repair gives to the rebuilt block
RepairedID(id) == 100 + id

\* g.Compact returns to the worker.  An Issue347Error is repaired; for an
\* OutOfOrderChunksError the block is marked no-compact when configured so;
\* what is left is an error to publish.
WorkerCompactReturns(w) ==
    /\ wpc[w] = "compacting"
    /\ \E out \in CompactOutcomes(bcGroups[wgrp[w]]) :
       \E rout \in IF IsIssue347Error(out.err) THEN RepairOutcomes ELSE {"ok"},
          markOk \in IF MarksNoCompact(out.err) THEN BOOLEAN ELSE {TRUE} :
          LET err == out.err
              r == RepairIssue347(err, rout)
              repairing == err # NoErr /\ IsIssue347Error(err)
              marking == /\ err # NoErr
                         /\ ~(repairing /\ r.err = NoErr)
                         /\ MarksNoCompact(err)
              helpOk == IF repairing THEN r.err = NoErr ELSE markOk
          IN /\ wout' = [wout EXCEPT ![w] = err]
             /\ bktBlocks' = IF repairing /\ r.upload
                             THEN Uploaded(bktBlocks, {RepairedID(err.id)})
                             ELSE bktBlocks
             /\ bktDelMarks' = IF repairing /\ r.mark
                               THEN MarkForDeletion(bktDelMarks, err.id,
                                                    "source of repaired block")
                               ELSE bktDelMarks
             /\ bktNoCompactMarks' = IF marking /\ markOk
                                     THEN bktNoCompactMarks \cup {err.id}
                                     ELSE bktNoCompactMarks
             /\ whelp' = [whelp EXCEPT ![w] =
                             IF repairing
                             THEN IF r.err = NoErr THEN "repaired" ELSE "repairfail"
                             ELSE IF marking
                             THEN IF markOk THEN "marked" ELSE "markfail"
                             ELSE "none"]
             /\ IF err = NoErr
                THEN /\ finishedAllGroups' = (finishedAllGroups /\ ~out.shouldRerun)
                     /\ bcMore' = IF out.shouldRerun THEN bcMore \cup {"rerun"} ELSE bcMore
                     /\ wpc' = [wpc EXCEPT ![w] = "waiting"]
                     /\ UNCHANGED werr
                ELSE IF Recovered(err, helpOk)
                THEN /\ finishedAllGroups' = FALSE
                     /\ bcMore' = bcMore \cup {IF repairing THEN "repaired" ELSE "nocompact"}
                     /\ wpc' = [wpc EXCEPT ![w] = "waiting"]
                     /\ UNCHANGED werr
                ELSE /\ werr' = [werr EXCEPT ![w] = Wrap(err, "group")]
                     /\ wpc' = [wpc EXCEPT ![w] = "publishing"]
                     /\ UNCHANGED <<finishedAllGroups, bcMore>>
    /\ wgrp' = [wgrp EXCEPT ![w] = 0]
    /\ UNCHANGED <<skipBlocksWithOutOfOrderChunks, bpc, bcPass, bcGroups, gi, groupChanClosed,
                   errChan, groupErrs, bret, bcInvoked, bcPublished>>
    /\ UNCHANGED bcRest
    /\ UNCHANGED bcCtl

\* an errChan that holds one error, whatever the number of workers
WorkerPublishCapacityOne(w) ==
    /\ wpc[w] = "publishing"
    /\ Len(errChan) < 1
    /\ errChan' = Append(errChan, werr[w])
    /\ bcPublished' = Append(bcPublished, werr[w])
    /\ werr' = [werr EXCEPT ![w] = NoErr]
    /\ wpc' = [wpc EXCEPT ![w] = "exited"]
    /\ UNCHANGED <<skipBlocksWithOutOfOrderChunks, bpc, bcPass, bcGroups, gi, groupChanClosed,
                   wgrp, finishedAllGroups, groupErrs, bret, bcInvoked>>
    /\ wout' = [wout EXCEPT ![w] = NoErr]
    /\ whelp' = [whelp EXCEPT ![w] = "none"]
    /\ UNCHANGED bcMore
    /\ UNCHANGED bcFrame
    /\ UNCHANGED bcCtl

\* a worker that would call workCtxCancel() as it sends its error
WorkerPublishCancels(w) ==
    /\ wpc[w] = "publishing"
    /\ Len(errChan) < NWorkers
    /\ errChan' = Append(errChan, werr[w])
    /\ bcPublished' = Append(bcPublished, werr[w])
    /\ werr' = [werr EXCEPT ![w] = NoErr]
    /\ wpc' = [wpc EXCEPT ![w] = "exited"]
    /\ UNCHANGED <<skipBlocksWithOutOfOrderChunks, bpc, bcPass, bcGroups, gi, groupChanClosed,
                   wgrp, finishedAllGroups, groupErrs, bret, bcInvoked>>
    /\ wout' = [wout EXCEPT ![w] = NoErr]
    /\ whelp' = [whelp EXCEPT ![w] = "none"]
    /\ UNCHANGED bcMore
    /\ UNCHANGED bcFrame
    /\ workCtxDone' = TRUE
    /\ UNCHANGED bcSteps

\* errChan <- errors.Wrapf(err, "group %s", g.Key()); return.  errChan holds
\* up to c.concurrency errors.
WorkerPublish(w) ==
    /\ wpc[w] = "publishing"
    /\ Len(errChan) < NWorkers
    /\ errChan' = Append(errChan, werr[w])
    /\ bcPublished' = Append(bcPublished, werr[w])
    /\ werr' = [werr EXCEPT ![w] = NoErr]
    /\ wpc' = [wpc EXCEPT ![w] = "exited"]
    /\ UNCHANGED <<skipBlocksWithOutOfOrderChunks, bpc, bcPass, bcGroups, gi, groupChanClosed,
                   wgrp, finishedAllGroups, groupErrs, bret, bcInvoked>>
    /\ wout' = [wout EXCEPT ![w] = NoErr]
    /\ whelp' = [whelp EXCEPT ![w] = "none"]
    /\ UNCHANGED bcMore
    /\ UNCHANGED bcFrame
    /\ UNCHANGED bcCtl

\* the worker's range over groupChan ends when the channel is closed
WorkerExit(w) ==
    /\ wpc[w] = "waiting"
    /\ groupChanClosed
    /\ wpc' = [wpc EXCEPT ![w] = "exited"]
    /\ wout' = [wout EXCEPT ![w] = NoErr]
    /\ whelp' = [whelp EXCEPT ![w] = "none"]
    /\ UNCHANGED <<skipBlocksWithOutOfOrderChunks, bpc, bcPass, bcGroups, gi, groupChanClosed,
                   errChan, wgrp, werr, finishedAllGroups, groupErrs, bret, bcInvoked>>
    /\ UNCHANGED <<bcMore, bcPublished>>
    /\ UNCHANGED bcFrame
    /\ UNCHANGED bcCtl

PassEndIgnoresMoreWork ==
    /\ bpc = "wait"
    /\ \A w \in Workers : wpc[w] = "exited"
    /\ LET all == groupErrs \o errChan
       IN /\ groupErrs' = all
          /\ errChan' = <<>>
          /\ bpc' = "done"
          /\ bret' = IF all # <<>> THEN MultiErr(all) ELSE NoErr
          /\ UNCHANGED bcPass
    /\ UNCHANGED <<skipBlocksWithOutOfOrderChunks, bcGroups, gi, groupChanClosed, wpc, wgrp,
                   werr, finishedAllGroups, bcInvoked>>
    /\ UNCHANGED bcHist
    /\ UNCHANGED bcFrame
    /\ workCtxDone' = TRUE
    /\ UNCHANGED bcSteps

\* wg.Wait() returns; errChan is closed and drained into groupErrs; with
\* errors Compact returns them, without it returns nil when every group is
\* finished, and otherwise begins the next pass
PassEnd ==
    /\ bpc = "wait"
    /\ \A w \in Workers : wpc[w] = "exited"
    /\ LET all == groupErrs \o errChan
       IN /\ groupErrs' = all
          /\ errChan' = <<>>
          /\ IF all # <<>>
             THEN bpc' = "done" /\ bret' = MultiErr(all) /\ UNCHANGED bcPass
             ELSE IF finishedAllGroups
             THEN bpc' = "done" /\ bret' = NoErr /\ UNCHANGED bcPass
             ELSE /\ bpc' = "start"
                  /\ bcPass' = IF bcPass < MaxPasses THEN bcPass + 1 ELSE bcPass
                  /\ UNCHANGED bret
    /\ UNCHANGED <<skipBlocksWithOutOfOrderChunks, bcGroups, gi, groupChanClosed, wpc, wgrp,
                   werr, finishedAllGroups, bcInvoked>>
    /\ UNCHANGED bcHist
    /\ UNCHANGED bcFrame
    /\ workCtxDone' = TRUE
    /\ UNCHANGED bcSteps

InitBC ==
    BCInit /\ SyncerInit /\ SyncInit /\ GCOff /\ GrouperOff /\ GroupOff /\ PureOff

NextBC ==
    \/ PassStart
    \/ PassSync
    \/ PassGarbageCollect
    \/ PassGroups
    \/ SenderSkip
    \/ SenderReceiveError
    \/ \E w \in Workers : Dispatch(w)
    \/ SenderClose
    \/ \E w \in Workers : WorkerCompactReturns(w)
    \/ \E w \in Workers : WorkerPublish(w)
    \/ \E w \in Workers : WorkerExit(w)
    \/ PassEnd

SpecBC == InitBC /\ [][NextBC]_vars

(***************************************************************************)
(* Claims about BucketCompactor.Compact (checked under SpecBC).            *)
(***************************************************************************)
\* C10: in no pass is Group.Compact invoked on a group that holds exactly
\* one block: no such group was handed to a worker, and no worker is
\* compacting one.
C10_NoSingleBlockGroupDispatched ==
    /\ \A i \in DOMAIN bcInvoked : Len(bcGroups[bcInvoked[i]].metasByMinTime) # 1
    /\ \A w \in Workers :
          wpc[w] = "compacting" => Len(bcGroups[wgrp[w]].metasByMinTime) # 1

\* in the second pass the sender went past a group of one block and handed
\* another group to a worker
C10_Witness ==
    /\ bcPass = 2
    /\ bcInvoked # <<>>
    /\ \E i \in DOMAIN bcGroups : i < gi /\ Len(bcGroups[i].metasByMinTime) = 1

\* what a worker does right after g.Compact returned an Issue347Error: it
\* ran the repair; after a repair that succeeded it waits for the next group
\* with nothing to publish; after a repair that failed it is about to
\* publish the error of the group
WorkerAfterIssue347 ==
    \A w \in Workers :
        /\ (wout[w] # NoErr /\ IsIssue347Error(wout[w]))
              => whelp[w] \in {"repaired", "repairfail"}
        /\ whelp[w] = "repaired"
              => /\ IsIssue347Error(wout[w])
                 /\ wpc[w] = "waiting"
                 /\ werr[w] = NoErr
                 /\ "repaired" \in bcMore
        /\ whelp[w] = "repairfail"
              => /\ IsIssue347Error(wout[w])
                 /\ wpc[w] = "publishing"
                 /\ werr[w] = Wrap(wout[w], "group")

\* C11 as stated: after an Issue347Error the worker runs the repair; when it
\* succeeds the worker publishes nothing and takes further groups, and the
\* orchestrator runs another pass (Compact does not return from this pass);
\* when it fails the error of the group is published and the worker exits.
\* Violated: an error another worker published in the same pass ends Compact.
C11_RepairThenAnotherPass ==
    /\ WorkerAfterIssue347
    /\ ~(bpc = "done" /\ "repaired" \in bcMore)

\* C11 amended: as above, but the orchestrator runs another pass only when
\* no worker published an error in the pass of the repair; otherwise Compact
\* returns the errors of that pass.  A worker that publishes sends its error
\* to errChan and exits.
C11_RepairThenAnotherPassUnlessError ==
    [][ /\ WorkerAfterIssue347'
        /\ \A w \in Workers :
              (wpc[w] = "publishing" /\ wpc'[w] # "publishing")
                  => wpc'[w] = "exited" /\ errChan' = Append(errChan, werr[w])
        /\ (bpc = "wait" /\ bpc' # "wait" /\ "repaired" \in bcMore)
              => IF bcPublished = <<>>
                 THEN bpc' = "start" /\ bret' = NoErr
                 ELSE bpc' = "done" /\ bret' # NoErr ]_vars

\* a pass after the first begins with a block in the bucket that a repair
\* marked for deletion
C11_Witness ==
    /\ bcPass = 2
    /\ bpc = "sync"
    /\ \E id \in DOMAIN bktDelMarks : bktDelMarks[id] = "source of repaired block"

\* what a worker does right after g.Compact returned an OutOfOrderChunksError
\* with skipBlocksWithOutOfOrderChunks enabled and block.MarkForNoCompact
\* wrote the marker: the block of the error is marked and the worker waits
\* for the next group with nothing to publish
WorkerAfterMarked ==
    \A w \in Workers :
        whelp[w] = "marked"
            => /\ IsOutOfOrderChunkError(wout[w])
               /\ wout[w].id \in bktNoCompactMarks
               /\ wpc[w] = "waiting"
               /\ werr[w] = NoErr
               /\ "nocompact" \in bcMore

\* C12 as stated: an OutOfOrderChunksError with
\* skipBlocksWithOutOfOrderChunks enabled gives the offending block a
\* no-compact marker, publishes no error for the group, and another pass is
\* run.  Violated: the marker write can fail, and an error another worker
\* published in the same pass ends Compact.
C12_OutOfOrderMarkedThenAnotherPass ==
    /\ \A w \in Workers :
          (wout[w] # NoErr /\ IsOutOfOrderChunkError(wout[w])
               /\ skipBlocksWithOutOfOrderChunks)
              => whelp[w] = "marked"
    /\ WorkerAfterMarked
    /\ ~(bpc = "done" /\ "nocompact" \in bcMore)

\* C12 amended: with skipBlocksWithOutOfOrderChunks enabled the worker
\* answers an OutOfOrderChunksError with block.MarkForNoCompact on the block
\* of the error; when the marker is written the worker publishes nothing for
\* the group, and another pass is run unless a worker published an error in
\* this pass; when the marker write fails the error of the group is
\* published.
C12_OutOfOrderMarkedUnlessError ==
    [][ /\ \A w \in Workers :
              (wout'[w] # NoErr /\ IsOutOfOrderChunkError(wout'[w])
                   /\ skipBlocksWithOutOfOrderChunks')
                  => whelp'[w] \in {"marked", "markfail"}
        /\ WorkerAfterMarked'
        /\ \A w \in Workers :
              whelp'[w] = "markfail"
                  => /\ wpc'[w] = "publishing"
                     /\ werr'[w] = Wrap(wout'[w], "group")
                     /\ (wout'[w].id \in bktNoCompactMarks')
                           => (wout'[w].id \in bktNoCompactMarks)
        /\ (bpc = "wait" /\ bpc' # "wait" /\ "nocompact" \in bcMore)
              => IF bcPublished = <<>>
                 THEN bpc' = "start" /\ bret' = NoErr
                 ELSE bpc' = "done" /\ bret' # NoErr ]_vars

\* a pass after the first begins with a no-compact marker in the bucket
C12_Witness ==
    /\ bcPass = 2
    /\ bpc = "sync"
    /\ skipBlocksWithOutOfOrderChunks
    /\ bktNoCompactMarks # {}

\* the errors Compact returned that came from an OutOfOrderChunksError of a
\* group
OutOfOrderMembers ==
    {i \in DOMAIN bret.members : IsOutOfOrderChunkError(bret.members[i])}

\* with skipBlocksWithOutOfOrderChunks disabled, a worker whose g.Compact
\* returned an OutOfOrderChunksError writes no marker and is about to
\* publish the error of the group
OutOfOrderPublished ==
    \A w \in Workers :
        (wout[w] # NoErr /\ IsOutOfOrderChunkError(wout[w])
             /\ ~skipBlocksWithOutOfOrderChunks)
            => /\ whelp[w] = "none"
               /\ wpc[w] = "publishing"
               /\ werr[w] = Wrap(wout[w], "group")
               /\ bktNoCompactMarks = {}

\* C13 as stated: with skipBlocksWithOutOfOrderChunks disabled, an
\* OutOfOrderChunksError of a group comes out of BucketCompactor.Compact as
\* an error for which IsRetryError is true.  Violated: the cause of the
\* published error is an OutOfOrderChunksError, not a RetryError.
C13_OutOfOrderReturnedAsRetry ==
    /\ OutOfOrderPublished
    /\ (bpc = "done" /\ ~skipBlocksWithOutOfOrderChunks /\ OutOfOrderMembers # {})
          => bret # NoErr /\ IsRetryError(bret)

\* C13 amended: with skipBlocksWithOutOfOrderChunks disabled, an
\* OutOfOrderChunksError of a group is published unmarked and comes out of
\* BucketCompactor.Compact inside a non-nil multi-error for which
\* IsRetryError is false; IsHaltError is true for it only when another
\* group's halt error is in the same multi-error.
C13_OutOfOrderReturnedNotRetry ==
    /\ OutOfOrderPublished
    /\ \A i \in DOMAIN bcPublished :
          (bpc = "done" /\ bcPublished # <<>> /\ IsOutOfOrderChunkError(bcPublished[i]))
              => \E j \in OutOfOrderMembers : bret.members[j] = bcPublished[i]
    /\ (bpc = "done" /\ ~skipBlocksWithOutOfOrderChunks /\ OutOfOrderMembers # {})
          => /\ bret # NoErr
             /\ ~IsRetryError(bret)
             /\ IsHaltError(bret)
                   <=> \E j \in DOMAIN bret.members : CauseType(bret.members[j]) = "halt"

\* Compact returned an OutOfOrderChunksError of a group with the skipping
\* disabled
C13_Witness ==
    /\ bpc = "done"
    /\ ~skipBlocksWithOutOfOrderChunks
    /\ OutOfOrderMembers # {}

\* the sender hands a group to a worker in this step
Dispatches ==
    \E w \in Workers : wpc[w] = "waiting" /\ wpc'[w] = "compacting"

\* C15 as stated: once a worker has published a group error within a pass,
\* the sender dispatches no further group in that pass.  Violated: the
\* sender's select may still choose groupChan <- g while the error waits in
\* errChan.
C15_NoDispatchAfterPublish ==
    [][bcPublished # <<>> => ~Dispatches]_vars

\* C15 amended: once the sender has received a group error from errChan in
\* a pass, it dispatches no further group in that pass: it leaves the loop
\* and closes groupChan.
C15_NoDispatchAfterErrorReceived ==
    [][ /\ groupErrs # <<>> => ~Dispatches
        /\ (bpc = "send" /\ groupErrs = <<>> /\ groupErrs' # <<>>)
              => bpc' = "close" /\ UNCHANGED <<gi, bcInvoked>> ]_vars

\* the sender received an error while a group was left to dispatch and a
\* worker waited for one
C15_Witness ==
    /\ bpc = "close"
    /\ groupErrs # <<>>
    /\ gi <= Len(bcGroups)
    /\ ~SkipGroup(bcGroups[gi])
    /\ \E w \in Workers : wpc[w] = "waiting"

\* how many times x occurs in the sequence
Count(seq, x) == Cardinality({i \in DOMAIN seq : seq[i] = x})

\* the two sequences hold the same elements, each the same number of times
SameElements(s1, s2) ==
    /\ Len(s1) = Len(s2)
    /\ \A i \in DOMAIN s1 : Count(s1, s1[i]) = Count(s2, s1[i])

\* C16: a pass in which at least one worker published an error makes
\* BucketCompactor.Compact return a non-nil multi-error that holds every
\* error published in that pass exactly once, and no further pass is
\* started.
C16_PublishedErrorsReturned ==
    [][ (bpc = "wait" /\ bpc' # "wait" /\ bcPublished # <<>>)
            => /\ bpc' = "done"
               /\ bcPass' = bcPass
               /\ bret' # NoErr
               /\ CauseType(bret') = "multi"
               /\ SameElements(bret'.members, bcPublished) ]_vars

\* Compact returned the different errors two workers published in one pass
C16_Witness ==
    /\ bpc = "done"
    /\ Len(bcPublished) = 2
    /\ Len(bret.members) = 2
    /\ bcPublished[1] # bcPublished[2]

\* C17: BucketCompactor.Compact returns nil only after a pass in which no
\* worker published an error and no group reported more work (no Compact
\* returned shouldRerun, no repair succeeded, no block was marked
\* no-compact); after an error-free pass that reported more work it starts
\* another pass, which begins with the sync.
C17_NilOnlyAfterQuietPass ==
    [][ /\ (bpc' = "done" /\ bret' = NoErr)
              => /\ bcPublished' = <<>>
                 /\ bcMore' = {}
                 /\ bpc = "done" \/ (bpc = "wait" /\ \A w \in Workers : wpc[w] = "exited")
        /\ (bpc = "wait" /\ bpc' # "wait" /\ bcPublished = <<>> /\ bcMore # {})
              => bpc' = "start" /\ bret' = NoErr
        /\ (bpc = "start" /\ bpc' # "start")
              => bpc' = "sync" /\ bcInvoked' = <<>> /\ bcMore' = {} ]_vars

\* Compact returned nil after a second pass
C17_Witness ==
    /\ bpc = "done"
    /\ bret = NoErr
    /\ bcPass = 2
    /\ bcInvoked # <<>>

(***************************************************************************)
(* IsHaltError and IsRetryError applied to a multi-error                   *)
(* (specification SpecErr).  The multi-error is what errutil.MultiError    *)
(* .Err() returns for a non-empty list of members, as handed back by       *)
(* BucketCompactor.Compact, possibly inside errors.Wrap.                   *)
(***************************************************************************)
\* largest number of members of the multi-error
MaxMembers == 3

\* the ways a member is built in this package, each with the class its
\* construction gives it: halt(), retry(), retry() of a halt error (which
\* stays the halt error), halt() of a retry error, neither; bare or inside
\* errors.Wrapf(err, "group %s")
MemberKinds ==
    { [class |-> "halt",  err |-> halt(NewErr("critical"))],
      [class |-> "halt",  err |-> Wrap(halt(NewErr("critical")), "group")],
      [class |-> "halt",  err |-> Wrap(retry(halt(NewErr("overlap"))), "group")],
      [class |-> "halt",  err |-> halt(retry(NewErr("upload")))],
      [class |-> "retry", err |-> retry(NewErr("download"))],
      [class |-> "retry", err |-> Wrap(retry(Wrap(NewErr("upload"), "upload of")), "group")],
      [class |-> "other", err |-> Wrap(NewErr("planner"), "plan compaction")],
      [class |-> "other", err |-> Wrap(outOfOrderChunkError(NewErr("ooo"), 1), "group")] }

MemberLists ==
    UNION {[1 .. n -> MemberKinds] : n \in 1 .. MaxMembers}

\* the error handed to IsHaltError and IsRetryError
TheMultiError ==
    LET m == MultiErr([i \in DOMAIN mKinds |-> mKinds[i].err])
    IN IF mWrapped THEN Wrap(m, "compaction") ELSE m

ClassifyInit ==
    /\ mKinds \in MemberLists
    /\ mWrapped \in BOOLEAN
    /\ mpc = {}
    /\ mHalt = FALSE
    /\ mRetry = FALSE

\* IsHaltError(err)
ClassifyHalt ==
    /\ mKinds # <<>>
    /\ "halt" \notin mpc
    /\ mHalt' = IsHaltError(TheMultiError)
    /\ mpc' = mpc \cup {"halt"}
    /\ UNCHANGED <<mKinds, mWrapped, mRetry>>
    /\ UNCHANGED classFrame

\* IsRetryError(err)
ClassifyRetry ==
    /\ mKinds # <<>>
    /\ "retry" \notin mpc
    /\ mRetry' = IsRetryError(TheMultiError)
    /\ mpc' = mpc \cup {"retry"}
    /\ UNCHANGED <<mKinds, mWrapped, mHalt>>
    /\ UNCHANGED classFrame

InitErr ==
    /\ ClassifyInit /\ RetentionOff /\ AuxOff
    /\ SyncerInit /\ SyncInit /\ BktEmpty /\ GCOff /\ GrouperOff /\ GroupOff /\ BCOff

NextErr ==
    \/ ClassifyHalt
    \/ ClassifyRetry

SpecErr == InitErr /\ [][NextErr]_vars

\* C14: for every non-nil multi-error, IsHaltError is true iff at least one
\* member is a halt error, and IsRetryError is true iff every member is a
\* retry error.
C14_HaltIfAnyRetryIfAll ==
    /\ "halt" \in mpc
          => (mHalt <=> \E i \in DOMAIN mKinds : mKinds[i].class = "halt")
    /\ "retry" \in mpc
          => (mRetry <=> \A i \in DOMAIN mKinds : mKinds[i].class = "retry")

\* both classifications were computed for a multi-error with a halt member
\* and a retry member
C14_Witness ==
    /\ mpc = {"halt", "retry"}
    /\ \E i, j \in DOMAIN mKinds :
          mKinds[i].class = "halt" /\ mKinds[j].class = "retry"
    /\ mHalt
    /\ ~mRetry

(***************************************************************************)
(* RetentionProgressCalculator.ProgressCalculate (specification            *)
(* SpecRetention).  Times and durations are in milliseconds: a block's     *)
(* MaxTime is a millisecond timestamp, which the calculator cuts down to   *)
(* whole seconds (time.Unix(m.MaxTime/1000, 0)).                           *)
(***************************************************************************)
\* number of blocks in the groups given to ProgressCalculate
NRetBlocks == 2

RetIDs == 1 .. NRetBlocks

\* the resolutions of the blocks
RetResolutions == {0, 1}

\* the MaxTime a block may have: on a whole second, and between two
RetMaxTimes == {1000, 1500}

\* the retention a resolution may have; 0 stands for keeping forever
RetDurations == {0, 1000, 1500}

\* what time.Now() may return
RetTimes == {2000, 2001, 2500, 3000}

\* the retention maps: a resolution may have no entry
RetentionMaps ==
    UNION {[D -> RetDurations] : D \in SUBSET RetResolutions}

\* rs.retentionByResolution[r]: a missing key reads as the zero duration
RetentionOf(r) ==
    IF r \in DOMAIN retentionByResolution THEN retentionByResolution[r] ELSE 0

\* the groups of a set of metas: one for each resolution that has blocks
RetGroupsOf(metas) ==
    LET used == {r \in RetResolutions : \E m \in metas : m.resolution = r}
        grp(r) == [key |-> <<r, 0>>, labels |-> 0, resolution |-> r,
                   metasByMinTime |-> SortMetas({m \in metas : m.resolution = r})]
        RECURSIVE build(_)
        build(rs) == IF rs = {} THEN <<>>
                     ELSE LET r == CHOOSE x \in rs : \A y \in rs : x <= y
                          IN <<grp(r)>> \o build(rs \ {r})
    IN build(used)

RetentionInit ==
    /\ retentionByResolution \in RetentionMaps
    /\ \E mt \in [RetIDs -> RetMaxTimes], rs \in [RetIDs -> RetResolutions] :
          rGroups = RetGroupsOf({Meta(i, 0, mt[i], 0, rs[i], 1, {i}) : i \in RetIDs})
    /\ rNow = 2000
    /\ rpc = "loop"
    /\ rgi = 1
    /\ rmi = 1
    /\ groupBlocks = <<>>
    /\ NumberOfBlocksToDelete \in {0, 1}
    /\ rVisited = <<>>

ExpiredAtEqualAge(now, maxTime, retentionDuration) ==
    /\ retentionDuration # 0
    /\ now >= (maxTime \div 1000) * 1000 + retentionDuration

\* whether the loop counts a block: its retention is not zero and now is
\* after time.Unix(m.MaxTime/1000, 0).Add(retentionDuration)
Expired(now, maxTime, retentionDuration) ==
    /\ retentionDuration # 0
    /\ now > (maxTime \div 1000) * 1000 + retentionDuration

\* groupBlocks[key]++
Increment(counts, key) ==
    IF key \in DOMAIN counts
    THEN [counts EXCEPT ![key] = @ + 1]
    ELSE [k \in DOMAIN counts \cup {key} |-> IF k = key THEN 1 ELSE counts[k]]

\* one iteration of the inner loop: the block rmi of the group rgi; the
\* clock is read as it stands then
RetentionVisit ==
    /\ rpc = "loop"
    /\ rgi <= Len(rGroups)
    /\ \E t \in RetTimes :
          /\ t >= rNow
          /\ rNow' = t
          /\ LET group == rGroups[rgi]
                 m == group.metasByMinTime[rmi]
                 counted == Expired(t, m.maxTime, RetentionOf(m.resolution))
             IN /\ groupBlocks' = IF counted THEN Increment(groupBlocks, group.key)
                                   ELSE groupBlocks
                /\ rVisited' = Append(rVisited, [meta |-> m, now |-> t, counted |-> counted])
                /\ IF rmi < Len(group.metasByMinTime)
                   THEN rmi' = rmi + 1 /\ UNCHANGED rgi
                   ELSE rmi' = 1 /\ rgi' = rgi + 1
    /\ UNCHANGED <<retentionByResolution, rGroups, rpc, NumberOfBlocksToDelete>>
    /\ UNCHANGED retFrame

RECURSIVE SumCounts(_)
SumCounts(counts) ==
    IF DOMAIN counts = {} THEN 0
    ELSE LET k == CHOOSE x \in DOMAIN counts : TRUE
         IN counts[k] + SumCounts([j \in DOMAIN counts \ {k} |-> counts[j]])

\* after the loops: the gauge is set to 0 and every group's count added
RetentionSet ==
    /\ rpc = "loop"
    /\ rgi > Len(rGroups)
    /\ NumberOfBlocksToDelete' = SumCounts(groupBlocks)
    /\ rpc' = "done"
    /\ UNCHANGED <<retentionByResolution, rGroups, rNow, rgi, rmi, groupBlocks, rVisited>>
    /\ UNCHANGED retFrame

\* the bucket holds the blocks of the groups
InitRetention ==
    /\ RetentionInit /\ ClassifyOff /\ AuxOff
    /\ bktDelMarks = <<>> /\ bktNoCompactMarks = {} /\ bktBlocks = RetIDs
    /\ SyncerInit /\ SyncInit /\ GCOff /\ GrouperOff /\ GroupOff /\ BCOff

NextRetention ==
    \/ RetentionVisit
    \/ RetentionSet

SpecRetention == InitRetention /\ [][NextRetention]_vars

\* the blocks the calculator counted
CountedVisits == {i \in DOMAIN rVisited : rVisited[i].counted}

\* the gauge shows the number of the counted blocks once the call is over
GaugeShowsCounted ==
    rpc = "done" => NumberOfBlocksToDelete = Cardinality(CountedVisits)

\* C19 as stated: the calculator counts a block iff now - maxTime >=
\* retention[resolution] and retention[resolution] > 0; a block whose age
\* equals the retention is counted, a retention of 0 never contributes.
\* Violated: the comparison is strict, against MaxTime cut to whole seconds.
C19_CountedIffAgeAtLeastRetention ==
    /\ GaugeShowsCounted
    /\ \A i \in DOMAIN rVisited :
          LET v == rVisited[i]
              retention == RetentionOf(v.meta.resolution)
          IN v.counted <=> (retention > 0 /\ v.now - v.meta.maxTime >= retention)

\* C19 amended: the calculator counts a block iff retention[resolution] is
\* not zero and now is strictly after the block's MaxTime, cut down to
\* whole seconds, plus the retention.  A block with MaxTime on a whole
\* second whose age equals the retention is not counted; a retention of 0
\* never contributes; the gauge ends as the number of counted blocks.
C19_CountedIffStrictlyOlder ==
    /\ GaugeShowsCounted
    /\ \A i \in DOMAIN rVisited :
          LET v == rVisited[i]
              retention == RetentionOf(v.meta.resolution)
              seconds == v.meta.maxTime \div 1000
          IN /\ retention = 0 => ~v.counted
             /\ retention > 0 => (v.counted <=> v.now - seconds * 1000 > retention)
             /\ (retention > 0 /\ v.meta.maxTime = seconds * 1000
                    /\ v.now - v.meta.maxTime = retention) => ~v.counted

\* the call is over; one block was older than its retention and counted,
\* another had exactly the age of its retention and was not
C19_Witness ==
    /\ rpc = "done"
    /\ NumberOfBlocksToDelete = 1
    /\ \E i, j \in DOMAIN rVisited :
          /\ rVisited[i].counted
          /\ ~rVisited[j].counted
          /\ RetentionOf(rVisited[j].meta.resolution) > 0
          /\ rVisited[j].now - rVisited[j].meta.maxTime
                = RetentionOf(rVisited[j].meta.resolution)

(***************************************************************************)
(* The operations of the core that work on the bucket, side by side        *)
(* (specification SpecCore): a run is one GarbageCollect call, or one      *)
(* Group.Compact call, or one BucketCompactor.Compact call with its        *)
(* repairs, or one call of the retention progress calculator.              *)
(***************************************************************************)
\* which operation the run is about
GroupActive == metasByMinTime # <<>>

BCActive == bpc # "idle"

RetentionActive == rpc # "idle"

GCActive == ~GroupActive /\ ~BCActive /\ ~RetentionActive

InitCore == InitGC \/ InitGroup \/ InitBC \/ InitRetention

NextCore ==
    \/ GCActive /\ NextGC
    \/ GroupActive /\ NextGroup
    \/ BCActive /\ NextBC
    \/ RetentionActive /\ NextRetention

SpecCore == InitCore /\ [][NextCore]_vars

PublishStep(w) == wpc[w] = "publishing" /\ wpc'[w] = "exited"

\* C21 as stated: when a worker publishes a non-recoverable group failure
\* the work context of the pass is cancelled at that moment.
C21_PublishCancelsWorkContext ==
    [][\A w \in Workers : PublishStep(w) => workCtxDone']_vars

\* C21 as the code has it: publishing an error leaves the work context as it
\* is; the context is cancelled only by Compact itself, at a moment when no
\* worker is compacting (after wg.Wait, or on an early return before any
\* group was sent), so a compaction in flight on another worker is never
\* aborted by a published failure.
C21_WorkContextCancelledOnlyByCompact ==
    [][/\ \A w \in Workers : PublishStep(w) => workCtxDone' = workCtxDone
       /\ (~workCtxDone /\ workCtxDone') =>
             /\ \A w \in Workers : wpc[w] # "compacting" /\ wpc'[w] = wpc[w]
             /\ bpc' \in {"done", "start"}]_vars

\* one worker has published its failure and returned while another is still
\* compacting under a work context that is not cancelled
C21_Witness ==
    /\ bcPublished # <<>>
    /\ \E w1, w2 \in Workers :
          /\ wpc[w1] = "exited"
          /\ wpc[w2] = "compacting"
    /\ ~workCtxDone

\* ---------------------------------------------------------------------------
\* GarbageCollect when a deletion marker cannot be written (SpecGC)
\* ---------------------------------------------------------------------------

\* the call returned from inside the loop with the context still live: the
\* MarkForDeletion of the block at the head of garbageIDs failed
GCMarkFailed == gcpc = "done" /\ garbageIDs # <<>> /\ ~ctxDone

\* the blocks the loop marked before the one that failed
GCMarkedEarlier == {gcTried[k] : k \in 1 .. Len(gcTried) - 1}

\* C22: when MarkForDeletion fails for a block, GarbageCollect has returned
\* a retry error; no garbage block after the failing one was tried or
\* marked; the failing block has no new marker and its snapshot entry is as
\* it was when the call started; and every block marked earlier in the call
\* has its marker and is out of the snapshot.
C22_MarkFailureStopsGarbageCollect ==
    GCMarkFailed =>
        LET failing == Head(garbageIDs)
            later == Range(Tail(garbageIDs))
        IN /\ IsRetryError(gcret)
           /\ ~IsHaltError(gcret)
           /\ gcTried # <<>> /\ gcTried[Len(gcTried)] = failing
           /\ \A i \in later :
                 /\ i \notin Range(gcTried)
                 /\ (i \in DOMAIN bktDelMarks) = (i \in DOMAIN gcBkt0)
                 /\ (i \in DOMAIN blocks) = (i \in DOMAIN gcBlocks0)
           /\ (failing \in DOMAIN bktDelMarks) = (failing \in DOMAIN gcBkt0)
           /\ (failing \in DOMAIN blocks) = (failing \in DOMAIN gcBlocks0)
           /\ failing \in DOMAIN blocks => blocks[failing] = gcBlocks0[failing]
           /\ \A i \in GCMarkedEarlier :
                 /\ i \in DOMAIN bktDelMarks
                 /\ i \notin DOMAIN blocks

\* the second of three garbage blocks failed: the first, which was in the
\* snapshot, is marked and removed, the failing one is still in the
\* snapshot, and a third one was never reached
C22_Witness ==
    /\ GCMarkFailed
    /\ Len(gcTried) = 2
    /\ Len(garbageIDs) = 2
    /\ gcTried[1] \in DOMAIN gcBlocks0
    /\ gcTried[1] \notin DOMAIN gcBkt0
    /\ gcTried[2] \in DOMAIN blocks

\* ---------------------------------------------------------------------------
\* The order of the steps of a pass (SpecBC)
\* ---------------------------------------------------------------------------

\* the steps of a pass that come before any group is sent
PassSteps == <<"sync", "gc", "groups">>

\* the message Compact wraps around the error of the step that follows the
\* completed steps
PassStepWrap(done) ==
    IF Len(done) = 0 THEN "sync"
    ELSE IF Len(done) = 1 THEN "garbage" ELSE "build compaction groups"

\* the message of the outermost layer of an error
OuterMessage(e) == IF e.layers = <<>> THEN "" ELSE Head(e.layers).msg

AscendingByMinTime(s) ==
    \A i \in 1 .. Len(s) - 1 : s[i].minTime <= s[i + 1].minTime

\* metas of s with equal minTime stand in ascending order of block ID
TiesByBlockID(s) ==
    \A i \in 1 .. Len(s) - 1 :
        s[i].minTime = s[i + 1].minTime => s[i].ulid < s[i + 1].ulid

\* C24 as stated: after any sequence of AppendMeta calls metasByMinTime is
\* ascending by minTime and metas of equal minTime are in ascending order of
\* block ID.
C24_SortedByMinTimeThenBlockID ==
    \A i \in DOMAIN gres :
        /\ AscendingByMinTime(gres[i].metasByMinTime)
        /\ TiesByBlockID(gres[i].metasByMinTime)

\* C24 as the code has it: after any sequence of AppendMeta calls
\* metasByMinTime holds exactly the appended metas, ascending by minTime;
\* the comparison looks at minTime only, so nothing more is fixed about
\* metas of equal minTime.
C24_SortedByMinTimeOnly ==
    \A i \in DOMAIN gres :
        /\ AscendingByMinTime(gres[i].metasByMinTime)
        /\ \A j, k \in DOMAIN gres[i].metasByMinTime :
              gres[i].metasByMinTime[j] = gres[i].metasByMinTime[k] => j = k
        /\ gpc = "loop" =>
              \A j \in DOMAIN gres[i].metasByMinTime :
                  LET m == gres[i].metasByMinTime[j]
                  IN m.ulid \in DOMAIN blocks \ gtodo /\ blocks[m.ulid] = m

\* a group of three appended metas: two of equal minTime, the one with the
\* greater block ID first, and a third with a later minTime after them
C24_Witness ==
    \E i \in DOMAIN gres :
        LET s == gres[i].metasByMinTime
        IN /\ Len(s) = 3
           /\ s[1].minTime = s[2].minTime
           /\ s[1].ulid > s[2].ulid
           /\ s[2].minTime < s[3].minTime

\* ---------------------------------------------------------------------------
\* The metas of the group after a compaction (SpecGroup)
\* ---------------------------------------------------------------------------

\* the metas of the group that are sources of the compaction just done
SourcesStillInGroup ==
    {j \in DOMAIN metasByMinTime : metasByMinTime[j].ulid \in PlannedIDs}

\* C25: when Compact has returned successfully with result blocks, no planned
\* source meta is in metasByMinTime any more.  The code marks the sources in
\* the bucket only: compact never calls deleteFromGroup and never assigns
\* metasByMinTime, so the statement does not hold.
C25_SourcesRemovedFromGroup ==
    (ReturnedSuccess /\ cret.compIDs # <<>>) => SourcesStillInGroup = {}

\* ---------------------------------------------------------------------------
\* The health diagnoses of a downloaded block (SpecGroup)
\* ---------------------------------------------------------------------------

\* Compact has returned the error of a task that had downloaded its block
\* and gathered its health stats
HealthFailed == Returned /\ dlErr # NoErr /\ dlIn.dlOk /\ dlIn.statsOk

\* C26: the error of a task that downloaded its block and gathered its
\* health stats follows the diagnoses in a fixed precedence: a critical
\* error gives a halt error; otherwise out-of-order chunks give an
\* out-of-order-chunks error with the block's ID; otherwise Issue 347 gives
\* an Issue 347 error with the block's ID; otherwise out-of-order labels
\* give an error that is neither retry nor halt, and only when
\* acceptMalformedIndex is not set.  Compact returns that error and nothing
\* was merged, uploaded or marked for deletion.
C26_DiagnosesClassifiedInOrder ==
    HealthFailed =>
        LET d == dlIn.diag
            e == cret.err
        IN /\ e = dlErr
           /\ cret.shouldRerun = FALSE /\ cret.compIDs = <<>>
           /\ dlCause \in PlannedIDs /\ dlCause \in downloads
           /\ IF "critical" \in d
              THEN IsHaltError(e) /\ ~IsRetryError(e)
              ELSE IF "ooo" \in d
              THEN /\ IsOutOfOrderChunkError(e) /\ e.id = dlCause
                   /\ ~IsHaltError(e) /\ ~IsRetryError(e) /\ ~IsIssue347Error(e)
              ELSE IF "i347" \in d
              THEN /\ IsIssue347Error(e) /\ e.id = dlCause
                   /\ ~IsHaltError(e) /\ ~IsRetryError(e) /\ ~IsOutOfOrderChunkError(e)
              ELSE /\ "labels" \in d
                   /\ ~acceptMalformedIndex
                   /\ CauseType(e) = "plain"
                   /\ ~IsRetryError(e) /\ ~IsHaltError(e)
           /\ mergeCalls = 0
           /\ uploads = <<>>
           /\ cgDel = <<>>
           /\ bktDelMarks = cgBkt0

\* a block with out-of-order chunks, Issue 347 and out-of-order labels, but
\* no critical error: Compact returned the out-of-order-chunks error
C26_Witness ==
    /\ HealthFailed
    /\ dlIn.diag = {"ooo", "i347", "labels"}
    /\ IsOutOfOrderChunkError(cret.err)
    /\ Cardinality(downloads) >= 2

\* ---------------------------------------------------------------------------
\* Which failures of Group.Compact are retry errors (SpecGroup)
\* ---------------------------------------------------------------------------

\* Compact returned because planner.Plan failed
PlanFailed == Returned /\ planned = "error"

\* Compact returned the error of a task whose block.Download failed
DownloadFailed == Returned /\ dlErr # NoErr /\ ~dlIn.dlOk

\* Compact returned because block.Upload of a result block failed
UploadFailed == Returned /\ "upload failed" \in Messages(cret.err)

\* Compact returned because deleteBlock failed for a source of the result
\* blocks, in the loop after the uploads
SourceMarkFailed ==
    /\ Returned
    /\ merged = "some"
    /\ cgDel # <<>>
    /\ cgDel[Len(cgDel)][2] \in {"rmfail", "markfail"}

HaltErrors ==
    { halt(Wrap(NewErr("critical"), "block with not healthy index found")),
      halt(Wrap(NewErr("overlaps found while gathering blocks"),
                "pre compaction overlap check")),
      Wrap(halt(NewErr("overlapping sources detected for plan")),
           "failed to run pre compaction callback for plan"),
      halt(Wrap(NewErr("populator"), "compact blocks")),
      halt(Wrap(NewErr("compactor"), "compact blocks")),
      halt(Wrap(NewErr("index"), "invalid result block")),
      halt(Wrap(NewErr("overlaps found while gathering blocks"),
                "resulted compacted block overlaps with something")) }

\* retry errors Group.Compact returns
RetryErrors ==
    { retry(Wrap(NewErr("download"), "download block")),
      retry(Wrap(NewErr("upload"), "upload failed")) }

\* a worker has sent a halt error to errChan in this pass
HaltPublished == \E i \in DOMAIN bcPublished : IsHaltError(bcPublished[i])

\* C28: the halt errors Group.Compact returns are the errors of HaltErrors;
\* each of them is a halt error also under the wrap with the group key and
\* in a multi-error next to retry errors of other groups; a worker whose
\* group returned a halt error sends it to errChan, and once a halt error
\* was sent the pass ends with Compact returning an error for which
\* IsHaltError is true, without a further pass.
C28_GroupHaltMakesCompactHalt ==
    /\ (Returned /\ IsHaltError(cret.err)) => cret.err \in HaltErrors
    /\ \A h \in HaltErrors :
          /\ IsHaltError(h)
          /\ IsHaltError(Wrap(h, "group"))
          /\ IsHaltError(MultiErr(<<Wrap(h, "group")>>))
          /\ \A r \in RetryErrors :
                /\ IsHaltError(MultiErr(<<Wrap(r, "group"), Wrap(h, "group")>>))
                /\ IsHaltError(MultiErr(<<Wrap(h, "group"), Wrap(r, "group")>>))
                /\ ~IsRetryError(MultiErr(<<Wrap(h, "group"), Wrap(r, "group")>>))
    /\ \A w \in Workers :
          (BCActive /\ IsHaltError(wout[w])) =>
              /\ wout[w] \in HaltErrors
              /\ wpc[w] = "publishing"
              /\ werr[w] = Wrap(wout[w], "group")
    /\ HaltPublished =>
          /\ bpc \in {"send", "close", "wait", "done"}
          /\ bpc = "done" => IsHaltError(bret) /\ ~IsRetryError(bret)

\* Compact has returned a multi-error that holds the halt error of one
\* group and the retry error of another, each wrapped with the group key
C28_Witness ==
    /\ bpc = "done"
    /\ CauseType(bret) = "multi"
    /\ Len(bret.members) = 2
    /\ \E i, j \in DOMAIN bret.members :
          /\ CauseType(bret.members[i]) = "halt"
          /\ CauseType(bret.members[j]) = "retry"
          /\ OuterMessage(bret.members[i]) = "group"
          /\ OuterMessage(bret.members[j]) = "group"
    /\ IsHaltError(bret)

\* ---------------------------------------------------------------------------
\* A plan with a duplicated source (SpecGroup)
\* ---------------------------------------------------------------------------

\* the planner returned a plan in which two blocks name a common source
DuplicatedSourcePlanned == planned = "some" /\ HasDuplicatedSource(toCompact)

\* the blocks whose download task was started, is waiting to be started, or
\* has ended
DownloadScheduled ==
    {dlTodo[k].ulid : k \in DOMAIN dlTodo} \cup {m.ulid : m \in dlRunning} \cup downloads

\* C29: when two blocks of the plan share a source, then with vertical
\* compaction disabled compact returns a halt error and no download task is
\* ever started; with vertical compaction enabled the callback returns nil
\* and compact goes on to download every block of the plan.
C29_DuplicatedSourceHaltsUnlessVertical ==
    DuplicatedSourcePlanned =>
        IF ~enableVerticalCompaction
        THEN /\ cpc \in {"unwind", "done"}
             /\ IsHaltError(cret.err)
             /\ "failed to run pre compaction callback for plan" \in Messages(cret.err)
             /\ cret.shouldRerun = FALSE /\ cret.compIDs = <<>>
             /\ DownloadScheduled = {}
             /\ mergeCalls = 0 /\ uploads = <<>> /\ cgDel = <<>>
             /\ bktDelMarks = cgBkt0
        ELSE /\ "failed to run pre compaction callback for plan" \notin Messages(cret.err)
             /\ cpc \notin {"overlap", "plan"}
             /\ DownloadScheduled = PlannedIDs
             /\ cpc # "download" => downloads = PlannedIDs

\* vertical compaction disabled, no two metas of the group overlap in time,
\* the plan holds two blocks with a common source: Compact returned the halt
\* error
C29_Witness ==
    /\ Returned
    /\ DuplicatedSourcePlanned
    /\ ~enableVerticalCompaction
    /\ ~GroupHasOverlap
    /\ IsHaltError(cret.err)
    /\ downloads = {}

\* ---------------------------------------------------------------------------
\* The work directory of the group after Compact (SpecGroupPanic)
\* ---------------------------------------------------------------------------

\* Compact returned because os.MkdirAll failed
MkdirFailed == Returned /\ "create compaction group dir" \in Messages(cret.err)

\* C30 as stated: the work directory is removed if and only if Compact
\* returns without error, and after every error return it is in place.
C30_SubDirRemovedIffNoError ==
    Returned =>
        /\ (rmAll = "ok") = (cret.err = NoErr)
        /\ (subDir = "absent") = (cret.err = NoErr)

\* C30 as the code has it: the deferred os.RemoveAll(subDir) is called if
\* and only if Compact returns without error, and its own failure is only
\* logged, so after a return without error the directory is gone unless the
\* removal failed; on every error return, a contained panic included,
\* nothing is removed: the directory is in place when os.MkdirAll had
\* created it, and was never created when the error is that of os.MkdirAll.
C30_SubDirRemovalTriedIffNoError ==
    Returned =>
        /\ (rmAll # "none") = (cret.err = NoErr)
        /\ cret.err = NoErr =>
              subDir = (IF rmAll = "ok" THEN "absent" ELSE "present")
        /\ cret.err # NoErr =>
              subDir = (IF MkdirFailed THEN "absent" ELSE "present")
        /\ panicAt = "compact" => cret.err = PanicError /\ subDir = "present"

\* a panic on Compact's goroutine after the source blocks were downloaded
\* was contained: Compact returned the error and the directory is in place
C30_Witness ==
    /\ Returned
    /\ panicAt = "compact"
    /\ cret.err = PanicError
    /\ downloads # {}
    /\ subDir = "present"
    /\ rmAll = "none"

(***************************************************************************)
(* One Group shared by goroutines: Compact takes cg.mtx for the whole of   *)
(* compact; AppendMeta, IDs and deleteFromGroup take it for their body.    *)
(***************************************************************************)
\* blocks whose metas may be in the group
NMxBlocks == 2

MxIDs == 1 .. NMxBlocks

\* most calls of AppendMeta, IDs and deleteFromGroup in one behaviour
MaxMethodCalls == 2

\* nothing but the shared group is at work
CoreOff ==
    /\ SyncerInit /\ SyncInit /\ BktEmpty /\ GCOff /\ GrouperOff /\ GroupOff /\ BCOff
    /\ ClassifyOff /\ RetentionOff

MutexInit ==
    /\ mxPc = [a \in MutexCallers |-> "idle"]
    /\ mxHolder = NoHolder
    /\ mxMetas \in SUBSET MxIDs
    /\ mxSeen = [a \in MutexCallers |-> {}]
    /\ mxCalls = 0

\* the steps of compact between cg.mtx.Lock() and the deferred Unlock, in
\* order: overlap check, plan (and pre-compaction callback), downloads,
\* merge, uploads of the result blocks, deletion marks of the sources
CompactPhases == <<"overlap", "plan", "download", "merge", "upload", "mark">>

PhaseAfter(ph) ==
    LET k == CHOOSE j \in DOMAIN CompactPhases : CompactPhases[j] = ph
    IN IF k = Len(CompactPhases) THEN "unlock" ELSE CompactPhases[k + 1]

\* the methods of Group that take cg.mtx for their body
GroupMethods == {"AppendMeta", "IDs", "deleteFromGroup"}

\* the caller is between a Lock of cg.mtx and the matching Unlock
InCritical(a) ==
    IF a = MethodCaller
    THEN mxPc[a] \in {"AppendMeta.body", "IDs.body", "deleteFromGroup.body"}
    ELSE mxPc[a] \in Range(CompactPhases) \cup {"unlock"}

\* Compact: os.MkdirAll(subDir), whose failure returns before compact is called
MxCompactStart(p) ==
    /\ mxPc[p] = "idle"
    /\ \E mkdirOk \in BOOLEAN :
          mxPc' = [mxPc EXCEPT ![p] = IF mkdirOk THEN "lock" ELSE "done"]
    /\ UNCHANGED <<mxHolder, mxMetas, mxSeen, mxCalls>>
    /\ UNCHANGED mutexFrame

\* a Lock that does not wait for the mutex
MxLockNoWait(p) ==
    /\ mxPc[p] = "lock"
    /\ mxHolder' = p
    /\ mxSeen' = [mxSeen EXCEPT ![p] = mxMetas]
    /\ mxPc' = [mxPc EXCEPT ![p] = "overlap"]
    /\ UNCHANGED <<mxMetas, mxCalls>>
    /\ UNCHANGED mutexFrame

\* compact: cg.mtx.Lock() returns once the mutex is free
MxLock(p) ==
    /\ mxPc[p] = "lock"
    /\ mxHolder = NoHolder
    /\ mxHolder' = p
    /\ mxSeen' = [mxSeen EXCEPT ![p] = mxMetas]
    /\ mxPc' = [mxPc EXCEPT ![p] = "overlap"]
    /\ UNCHANGED <<mxMetas, mxCalls>>
    /\ UNCHANGED mutexFrame

\* compact: one step of the sequence ends; compact goes on to the next, or
\* returns (an error, an empty plan, no result block, or the end)
MxCompactStep(p) ==
    /\ mxPc[p] \in Range(CompactPhases)
    /\ \E goesOn \in BOOLEAN :
          mxPc' = [mxPc EXCEPT ![p] = IF goesOn THEN PhaseAfter(mxPc[p]) ELSE "unlock"]
    /\ UNCHANGED <<mxHolder, mxMetas, mxSeen, mxCalls>>
    /\ UNCHANGED mutexFrame

\* compact returns: the deferred cg.mtx.Unlock() runs, then Compact returns
MxUnlock(p) ==
    /\ mxPc[p] = "unlock"
    /\ mxHolder' = NoHolder
    /\ mxPc' = [mxPc EXCEPT ![p] = "done"]
    /\ UNCHANGED <<mxMetas, mxSeen, mxCalls>>
    /\ UNCHANGED mutexFrame

\* a goroutine calls AppendMeta, IDs or deleteFromGroup: it is at cg.mtx.Lock()
MxMethodCall ==
    /\ mxPc[MethodCaller] = "idle"
    /\ mxCalls < MaxMethodCalls
    /\ \E op \in GroupMethods : mxPc' = [mxPc EXCEPT ![MethodCaller] = op]
    /\ mxCalls' = mxCalls + 1
    /\ UNCHANGED <<mxHolder, mxMetas, mxSeen>>
    /\ UNCHANGED mutexFrame

\* cg.mtx.Lock() of the method returns once the mutex is free
MxMethodLock ==
    /\ mxPc[MethodCaller] \in GroupMethods
    /\ mxHolder = NoHolder
    /\ mxHolder' = MethodCaller
    /\ mxSeen' = [mxSeen EXCEPT ![MethodCaller] = mxMetas]
    /\ mxPc' = [mxPc EXCEPT ![MethodCaller] =
                   IF mxPc[MethodCaller] = "AppendMeta" THEN "AppendMeta.body"
                   ELSE IF mxPc[MethodCaller] = "IDs" THEN "IDs.body"
                   ELSE "deleteFromGroup.body"]
    /\ UNCHANGED <<mxMetas, mxCalls>>
    /\ UNCHANGED mutexFrame

\* the body of the method and its deferred Unlock: AppendMeta appends a
\* meta unless the labels or the resolution do not match, deleteFromGroup
\* keeps the metas that are not in target, IDs only reads
MxMethodBody ==
    /\ InCritical(MethodCaller)
    /\ \/ /\ mxPc[MethodCaller] = "AppendMeta.body"
          /\ \E id \in MxIDs, matches \in BOOLEAN :
                mxMetas' = IF matches THEN mxMetas \cup {id} ELSE mxMetas
       \/ /\ mxPc[MethodCaller] = "IDs.body"
          /\ UNCHANGED mxMetas
       \/ /\ mxPc[MethodCaller] = "deleteFromGroup.body"
          /\ \E target \in SUBSET MxIDs : mxMetas' = mxMetas \ target
    /\ mxHolder' = NoHolder
    /\ mxPc' = [mxPc EXCEPT ![MethodCaller] = "idle"]
    /\ UNCHANGED <<mxSeen, mxCalls>>
    /\ UNCHANGED mutexFrame

InitMutex == MutexInit /\ CoreOff /\ RepairOff /\ FilterOff /\ ProgressOff /\ ErrClassOff

NextMutex ==
    \/ \E p \in CompactCallers : MxCompactStart(p)
    \/ \E p \in CompactCallers : MxLock(p)
    \/ \E p \in CompactCallers : MxCompactStep(p)
    \/ \E p \in CompactCallers : MxUnlock(p)
    \/ MxMethodCall
    \/ MxMethodLock
    \/ MxMethodBody

SpecMutex == InitMutex /\ [][NextMutex]_vars

\* C31: while a Compact call is between its overlap check and its last
\* deletion mark it holds cg.mtx: no other Compact call on the group is in
\* that sequence, no AppendMeta, IDs or deleteFromGroup is in its body, and
\* metasByMinTime is as the call found it when it took the mutex.
C31_CompactSequenceHoldsMutex ==
    \A p \in CompactCallers :
        InCritical(p) =>
            /\ mxHolder = p
            /\ \A a \in MutexCallers \ {p} : ~InCritical(a)
            /\ mxMetas = mxSeen[p]

\* one Compact call is at its deletion marks while the other waits at Lock
\* and a deleteFromGroup call waits at Lock as well, after an earlier method
\* call had run
C31_Witness ==
    /\ mxPc[1] = "mark"
    /\ mxPc[2] = "lock"
    /\ mxPc[MethodCaller] = "deleteFromGroup"
    /\ mxCalls = 2
    /\ mxHolder = 1

(***************************************************************************)
(* RepairIssue347, statement by statement                                  *)
(***************************************************************************)
\* blocks an Issue347Error may name
NRpBlocks == 3

RpIDs == 1 .. NRpBlocks

\* most errors.Wrap layers around the error given to RepairIssue347
MaxRpWraps == 2

RECURSIVE WrapTimes(_, _)
WrapTimes(e, n) == IF n = 0 THEN e ELSE Wrap(WrapTimes(e, n - 1), "compaction")

\* the errors RepairIssue347 is called with: an Issue347Error or another
\* error, bare or wrapped
RepairInputs ==
    {WrapTimes(issue347Error(NewErr("invalid chunk"), id), n) :
         id \in RpIDs, n \in 0 .. MaxRpWraps}
    \cup {WrapTimes(NewErr("other"), n) : n \in 0 .. MaxRpWraps}

RepairInit ==
    /\ rpPc = "cause"
    /\ rpIn \in RepairInputs
    /\ rpLog = <<>>
    /\ rpRet = NoErr

\* ie.id
BrokenID == Cause(rpIn).id

\* one operation on a block and whether it succeeded
RpOp(op, id, ok) == [op |-> op, id |-> id, ok |-> ok]

\* a statement of RepairIssue347 ran: on failure the function returns err
RpStatement(at, op, id, next, err) ==
    /\ rpPc = at
    /\ \E ok \in BOOLEAN :
          /\ rpLog' = Append(rpLog, RpOp(op, id, ok))
          /\ rpPc' = IF ok THEN next ELSE "done"
          /\ rpRet' = IF ok THEN NoErr ELSE err
    /\ UNCHANGED rpIn
    /\ UNCHANGED repairFrame

\* errors.Cause(issue347Err).(Issue347Error)
RpCause ==
    /\ rpPc = "cause"
    /\ IF CauseType(rpIn) = "i347"
       THEN rpPc' = "MkdirTemp" /\ UNCHANGED rpRet
       ELSE rpPc' = "done" /\ rpRet' = NewErr("Given error is not an issue347 error")
    /\ UNCHANGED <<rpIn, rpLog>>
    /\ UNCHANGED repairFrame

RpMkdirTemp ==
    RpStatement("MkdirTemp", "MkdirTemp", BrokenID, "Download", NewErr("mkdirtemp"))

RpDownload ==
    RpStatement("Download", "Download", BrokenID, "ReadFromDir",
                retry(Wrap(NewErr("download"), "download block")))

RpReadFromDir ==
    RpStatement("ReadFromDir", "ReadFromDir", BrokenID, "Repair",
                Wrap(NewErr("read"), "read meta from"))

RpRepair ==
    RpStatement("Repair", "Repair", BrokenID, "VerifyIndex",
                Wrap(NewErr("repair"), "repair failed for block"))

\* a failed verification of the rebuilt block that does not stop the repair
RpVerifyIndexIgnored ==
    /\ rpPc = "VerifyIndex"
    /\ \E ok \in BOOLEAN :
          rpLog' = Append(rpLog, RpOp("VerifyIndex", RepairedID(BrokenID), ok))
    /\ rpPc' = "Upload"
    /\ UNCHANGED <<rpIn, rpRet>>
    /\ UNCHANGED repairFrame

RpVerifyIndex ==
    RpStatement("VerifyIndex", "VerifyIndex", RepairedID(BrokenID), "Upload",
                Wrap(NewErr("verify"), "repaired block is invalid"))

RpUpload ==
    RpStatement("Upload", "Upload", RepairedID(BrokenID), "MarkForDeletion",
                retry(Wrap(NewErr("upload"), "upload failed")))

\* block.MarkForDeletion(delCtx, ..., ie.id, "source of repaired block", ...)
RpMarkForDeletion ==
    RpStatement("MarkForDeletion", "MarkForDeletion", BrokenID, "done",
                Wrap(NewErr("mark"), "marking old block for deletion has failed"))

InitRepair == RepairInit /\ CoreOff /\ MutexOff /\ FilterOff /\ ProgressOff /\ ErrClassOff

NextRepair ==
    \/ RpCause
    \/ RpMkdirTemp
    \/ RpDownload
    \/ RpReadFromDir
    \/ RpRepair
    \/ RpVerifyIndex
    \/ RpUpload
    \/ RpMarkForDeletion

SpecRepair == InitRepair /\ [][NextRepair]_vars

\* the operation at position i of the log failed
RpFailedAt(i) == ~rpLog[i].ok

\* C32: the deletion mark of the broken block is attempted only after the
\* rebuilt block passed VerifyIndex and was uploaded; after a failed
\* download, rebuild, verification or upload there is no deletion mark and
\* no upload.
C32_MarkOnlyAfterVerifiedUpload ==
    /\ \A i \in DOMAIN rpLog :
          rpLog[i].op = "MarkForDeletion" =>
              /\ rpLog[i].id = BrokenID
              /\ \E j \in 1 .. i - 1, k \in 1 .. i - 1 :
                    /\ j < k
                    /\ rpLog[j] = RpOp("VerifyIndex", RepairedID(BrokenID), TRUE)
                    /\ rpLog[k] = RpOp("Upload", RepairedID(BrokenID), TRUE)
    /\ \A i \in DOMAIN rpLog :
          (rpLog[i].op \in {"Download", "Repair", "VerifyIndex", "Upload"} /\ RpFailedAt(i)) =>
              /\ \A j \in DOMAIN rpLog : rpLog[j].op # "MarkForDeletion"
              /\ \A j \in DOMAIN rpLog : j > i => rpLog[j].op # "Upload"
              /\ rpRet # NoErr

\* the repair went through: the broken block was marked after the upload
C32_Witness ==
    /\ rpPc = "done"
    /\ rpRet = NoErr
    /\ Len(rpLog) = 7
    /\ rpLog[6] = RpOp("Upload", RepairedID(BrokenID), TRUE)
    /\ rpLog[7] = RpOp("MarkForDeletion", BrokenID, TRUE)
    /\ rpIn # Cause(rpIn)

(***************************************************************************)
(* GatherNoCompactionMarkFilter.Filter                                     *)
(***************************************************************************)
\* blocks that may be in the metas map
NNfBlocks == 3

NfIDs == 1 .. NNfBlocks

\* f.concurrency: the number of workers and the capacity of ch
FilterConcurrency == 2

NfWorkers == 1 .. FilterConcurrency

\* what metadata.ReadMarker may return for no-compact-mark.json: the mark,
\* ErrorMarkerNotFound, ErrorUnmarshalMarker, or another error
MarkerOutcomes == {"ok", "notfound", "unmarshal", "error"}

\* Filter was called: blockIDs is a copy of the keys of metas, the workers
\* and the distributing goroutine are scheduled; the map an earlier Filter
\* published is empty or holds every block
FilterInit ==
    /\ nfPc = "running"
    /\ nfMetas \in SUBSET NfIDs
    /\ nfMetas0 = nfMetas
    /\ nfCtxDone = FALSE
    /\ nfTodo = nfMetas
    /\ nfSender = "run"
    /\ nfCh = [buf |-> <<>>, closed |-> FALSE]
    /\ nfW = [w \in NfWorkers |-> [pc |-> "recv", id |-> 0, lastErr |-> NoErr]]
    /\ nfLocal = {}
    /\ nfEgErr = NoErr
    /\ nfScanned = {}
    /\ nfPublished \in {{}, NfIDs}
    /\ nfRet = NoErr

\* errgroup keeps the first non-nil error its goroutines return
EgRecord(err) == IF nfEgErr = NoErr THEN err ELSE nfEgErr

\* the caller cancels ctx
NfCancel ==
    /\ nfPc = "running"
    /\ ~nfCtxDone
    /\ nfCtxDone' = TRUE
    /\ UNCHANGED <<nfPc, nfMetas, nfMetas0, nfTodo, nfSender, nfCh, nfW, nfLocal, nfEgErr,
                   nfScanned, nfPublished, nfRet>>
    /\ UNCHANGED filterFrame

\* the distributing goroutine: case ch <- id
NfSend ==
    /\ nfSender = "run"
    /\ Len(nfCh.buf) < FilterConcurrency
    /\ \E id \in nfTodo :
          /\ nfCh' = [nfCh EXCEPT !.buf = Append(@, id)]
          /\ nfTodo' = nfTodo \ {id}
    /\ UNCHANGED <<nfPc, nfMetas, nfMetas0, nfCtxDone, nfSender, nfW, nfLocal, nfEgErr,
                   nfScanned, nfPublished, nfRet>>
    /\ UNCHANGED filterFrame

\* the distributing goroutine returns, nil after the last block or ctx.Err()
\* from case <-ctx.Done(), and the deferred close(ch) runs
NfSenderReturn ==
    /\ nfSender = "run"
    /\ \/ /\ nfTodo = {}
          /\ UNCHANGED nfEgErr
       \/ /\ nfTodo # {}
          /\ nfCtxDone
          /\ nfEgErr' = EgRecord(NewErr("context canceled"))
    /\ nfSender' = "done"
    /\ nfCh' = [nfCh EXCEPT !.closed = TRUE]
    /\ UNCHANGED <<nfPc, nfMetas, nfMetas0, nfCtxDone, nfTodo, nfW, nfLocal, nfScanned,
                   nfPublished, nfRet>>
    /\ UNCHANGED filterFrame

\* a worker: for id := range ch
NfRecv(w) ==
    /\ nfPc = "running"
    /\ nfW[w].pc = "recv"
    /\ nfCh.buf # <<>>
    /\ nfW' = [nfW EXCEPT ![w].pc = "read", ![w].id = Head(nfCh.buf)]
    /\ nfCh' = [nfCh EXCEPT !.buf = Tail(@)]
    /\ UNCHANGED <<nfPc, nfMetas, nfMetas0, nfCtxDone, nfTodo, nfSender, nfLocal, nfEgErr,
                   nfScanned, nfPublished, nfRet>>
    /\ UNCHANGED filterFrame

\* the body of the loop with a lastErr that is declared inside the loop
NfReadMarkerErrPerBlock(w) ==
    /\ nfW[w].pc = "read"
    /\ \E out \in MarkerOutcomes :
          /\ nfScanned' = nfScanned \cup {[id |-> nfW[w].id, out |-> out]}
          /\ nfLocal' = IF out = "ok" THEN nfLocal \cup {nfW[w].id} ELSE nfLocal
          /\ nfW' = [nfW EXCEPT ![w].pc = "recv",
                                ![w].lastErr = IF out = "error" THEN NewErr("read marker")
                                               ELSE NoErr]
    /\ UNCHANGED <<nfPc, nfMetas, nfMetas0, nfCtxDone, nfTodo, nfSender, nfCh, nfEgErr,
                   nfPublished, nfRet>>
    /\ UNCHANGED filterFrame

\* a worker: metadata.ReadMarker and what the loop does with its result
NfReadMarker(w) ==
    /\ nfW[w].pc = "read"
    /\ \E out \in MarkerOutcomes :
          /\ nfScanned' = nfScanned \cup {[id |-> nfW[w].id, out |-> out]}
          /\ nfLocal' = IF out = "ok" THEN nfLocal \cup {nfW[w].id} ELSE nfLocal
          /\ nfW' = [nfW EXCEPT ![w].pc = "recv",
                                ![w].lastErr = IF out = "error" THEN NewErr("read marker")
                                               ELSE @]
    /\ UNCHANGED <<nfPc, nfMetas, nfMetas0, nfCtxDone, nfTodo, nfSender, nfCh, nfEgErr,
                   nfPublished, nfRet>>
    /\ UNCHANGED filterFrame

\* a worker: ch is closed and drained, return lastErr
NfWorkerReturn(w) ==
    /\ nfPc = "running"
    /\ nfW[w].pc = "recv"
    /\ nfCh.buf = <<>>
    /\ nfCh.closed
    /\ nfW' = [nfW EXCEPT ![w].pc = "done"]
    /\ nfEgErr' = IF nfW[w].lastErr = NoErr THEN nfEgErr ELSE EgRecord(nfW[w].lastErr)
    /\ UNCHANGED <<nfPc, nfMetas, nfMetas0, nfCtxDone, nfTodo, nfSender, nfCh, nfLocal,
                   nfScanned, nfPublished, nfRet>>
    /\ UNCHANGED filterFrame

\* eg.Wait() returns: Filter returns the wrapped error, or publishes the map
NfWait ==
    /\ nfPc = "running"
    /\ nfSender = "done"
    /\ \A w \in NfWorkers : nfW[w].pc = "done"
    /\ nfPc' = "returned"
    /\ IF nfEgErr # NoErr
       THEN /\ nfRet' = Wrap(nfEgErr, "filter blocks marked for no compaction")
            /\ UNCHANGED nfPublished
       ELSE /\ nfRet' = NoErr
            /\ nfPublished' = nfLocal
    /\ UNCHANGED <<nfMetas, nfMetas0, nfCtxDone, nfTodo, nfSender, nfCh, nfW, nfLocal,
                   nfEgErr, nfScanned>>
    /\ UNCHANGED filterFrame

InitFilter ==
    FilterInit /\ CoreOff /\ MutexOff /\ RepairOff /\ ProgressOff /\ ErrClassOff

NextFilter ==
    \/ NfCancel
    \/ NfSend
    \/ NfSenderReturn
    \/ \E w \in NfWorkers : NfRecv(w)
    \/ \E w \in NfWorkers : NfReadMarker(w)
    \/ \E w \in NfWorkers : NfWorkerReturn(w)
    \/ NfWait

SpecFilter == InitFilter /\ [][NextFilter]_vars

\* the blocks whose marker was read, and those read with a given outcome
ScannedIDs == {r.id : r \in nfScanned}

ScannedAs(out) == {r.id : r \in {x \in nfScanned : x.out = out}}

\* metas is as given; NotFound and unparsable markers alone give no error;
\* a successful Filter has scanned every block and published exactly the
\* blocks whose marker was read
FilterPassesMetas ==
    /\ nfMetas = nfMetas0
    /\ nfPc = "returned" =>
          /\ nfRet = NoErr <=> (ScannedAs("error") = {} /\ nfTodo = {})
          /\ nfRet = NoErr => (ScannedIDs = nfMetas /\ nfPublished = ScannedAs("ok"))

\* C33 as stated: after another read error Filter returns an error, and
\* every block of metas was scanned.
C33_ReadErrorReturnsAfterFullScan ==
    /\ FilterPassesMetas
    /\ (nfPc = "returned" /\ ScannedAs("error") # {}) =>
          (nfRet # NoErr /\ ScannedIDs = nfMetas)

\* C33: metas is never changed; NotFound and unparsable markers are skipped
\* without error; after another read error Filter returns an error once the
\* workers scanned every block that was put on the channel, which is every
\* block of metas unless ctx was cancelled while blocks were left to offer;
\* a successful Filter publishes exactly the blocks whose marker was read.
C33_ReadErrorReturnsAfterDrain ==
    /\ FilterPassesMetas
    /\ (nfPc = "returned" /\ ScannedAs("error") # {}) =>
          /\ nfRet # NoErr
          /\ ScannedIDs = nfMetas \ nfTodo
          /\ (nfTodo # {} => nfCtxDone)

\* Filter returned an error after a read error on one block, having gone on
\* to read the mark of a second block and to skip a third whose marker was
\* not found
C33_Witness ==
    /\ nfPc = "returned"
    /\ nfRet = Wrap(NewErr("read marker"), "filter blocks marked for no compaction")
    /\ ScannedAs("error") = {1}
    /\ ScannedAs("ok") = {2}
    /\ ScannedAs("notfound") = {3}
    /\ nfLocal = {2}
    /\ nfPublished = {}

(***************************************************************************)
(* CompactionProgressCalculator.ProgressCalculate                          *)
(***************************************************************************)
\* groups passed to ProgressCalculate
NPgGroups == 2

\* most blocks in one of them
MaxPgBlocks == 3

\* most plans counted for one group in one call
MaxSimRuns == 2

\* the seconds the clock may advance during the call
MaxNow == 1

\* block i of the group with key k: [2(i-1), 2i), its own source
PgMeta(k, i) == Meta(10 * k + i, 2 * (i - 1), 2 * i, 1, 0, 10, {10 * k + i})

\* a group as Groups leaves it: at least one block, sorted by minTime
PgGroup(k, n) ==
    [key |-> k, labels |-> 1, resolution |-> 0,
     metasByMinTime |-> [i \in 1 .. n |-> PgMeta(k, i)]]

ProgressInit ==
    /\ pgPc = "loop"
    /\ \E ns \in [1 .. NPgGroups -> 1 .. MaxPgBlocks] :
          pgGroups = [k \in 1 .. NPgGroups |-> PgGroup(k, ns[k])]
    /\ pgGroups0 = [k \in 1 .. NPgGroups |-> pgGroups[k].metasByMinTime]
    /\ pgQueue = [k \in 1 .. NPgGroups |-> k]
    /\ pgTmp = <<>>
    /\ pgCompactions = [k \in 1 .. NPgGroups |-> 0]
    /\ pgBlocks = [k \in 1 .. NPgGroups |-> 0]
    /\ pgNow = 0
    /\ pgRet = NoErr

\* Group.deleteFromGroup: the metas whose ULID is not in target
deleteFromGroup(cg, target) ==
    SelectSeq(cg.metasByMinTime, LAMBDA m : m.ulid \notin target)

\* ulid.MustNew(uint64(time.Now().Unix()), nil): the ID is the second alone
SynthID(now) == 1000 + now

\* tsdb.CompactBlockMetas(uid, metas...): the range spanned by the blocks
\* and the union of their sources
CompactBlockMetas(uid, plan, cg) ==
    LET ms == Range(plan)
        lo == CHOOSE t \in {m.minTime : m \in ms} : \A m \in ms : t <= m.minTime
        hi == CHOOSE t \in {m.maxTime : m \in ms} : \A m \in ms : t >= m.maxTime
    IN Meta(uid, lo, hi, cg.labels, cg.resolution, 0, UNION {m.sources : m \in ms})

\* the inner loop passes over a group: one block, or an empty plan
PgSkip ==
    /\ pgPc = "loop"
    /\ pgQueue # <<>>
    /\ LET g == pgGroups[Head(pgQueue)]
       IN Len(g.metasByMinTime) = 1 \/ <<>> \in Plans(g.metasByMinTime)
    /\ pgQueue' = Tail(pgQueue)
    /\ UNCHANGED <<pgPc, pgGroups, pgGroups0, pgTmp, pgCompactions, pgBlocks, pgNow, pgRet>>
    /\ UNCHANGED progressFrame

\* ps.planner.Plan fails
PgPlanFails ==
    /\ pgPc = "loop"
    /\ pgQueue # <<>>
    /\ Len(pgGroups[Head(pgQueue)].metasByMinTime) # 1
    /\ pgPc' = "returned"
    /\ pgRet' = Wrap(NewErr("plan"), "could not plan")
    /\ UNCHANGED <<pgGroups, pgGroups0, pgQueue, pgTmp, pgCompactions, pgBlocks, pgNow>>
    /\ UNCHANGED progressFrame

\* the inner loop on a group with a non-empty plan: count it, take the
\* planned blocks out of the group and, unless the group is empty then, put
\* the synthesized block in
PgSimulate ==
    /\ pgPc = "loop"
    /\ pgQueue # <<>>
    /\ LET k == Head(pgQueue)
           g == pgGroups[k]
       IN /\ Len(g.metasByMinTime) # 1
          /\ pgCompactions[k] < MaxSimRuns
          /\ \E plan \in Plans(g.metasByMinTime) \ {<<>>}, now \in pgNow .. MaxNow :
                LET toRemove == {plan[j].ulid : j \in DOMAIN plan}
                    left == [g EXCEPT !.metasByMinTime = deleteFromGroup(g, toRemove)]
                    newMeta == CompactBlockMetas(SynthID(now), plan, g)
                IN /\ pgCompactions' = [pgCompactions EXCEPT ![k] = @ + 1]
                   /\ pgBlocks' = [pgBlocks EXCEPT ![k] = @ + Len(plan)]
                   /\ pgNow' = now
                   /\ IF left.metasByMinTime = <<>>
                      THEN /\ pgGroups' = [pgGroups EXCEPT ![k] = left]
                           /\ UNCHANGED pgTmp
                      ELSE \E r \in AppendMeta(left, newMeta) :
                              /\ r.err = NoErr
                              /\ pgGroups' = [pgGroups EXCEPT ![k].metasByMinTime = r.metas]
                              /\ pgTmp' = Append(pgTmp, k)
    /\ pgQueue' = Tail(pgQueue)
    /\ UNCHANGED <<pgPc, pgGroups0, pgRet>>
    /\ UNCHANGED progressFrame

\* groups = tmpGroups, and the outer loop goes round again
PgNextRound ==
    /\ pgPc = "loop"
    /\ pgQueue = <<>>
    /\ pgTmp # <<>>
    /\ pgQueue' = pgTmp
    /\ pgTmp' = <<>>
    /\ UNCHANGED <<pgPc, pgGroups, pgGroups0, pgCompactions, pgBlocks, pgNow, pgRet>>
    /\ UNCHANGED progressFrame

\* len(groups) = 0: the gauges are set and ProgressCalculate returns nil
PgReturn ==
    /\ pgPc = "loop"
    /\ pgQueue = <<>>
    /\ pgTmp = <<>>
    /\ pgPc' = "returned"
    /\ pgRet' = NoErr
    /\ UNCHANGED <<pgGroups, pgGroups0, pgQueue, pgTmp, pgCompactions, pgBlocks, pgNow>>
    /\ UNCHANGED progressFrame

InitProgress ==
    ProgressInit /\ CoreOff /\ MutexOff /\ RepairOff /\ FilterOff /\ ErrClassOff

NextProgress ==
    \/ PgSkip
    \/ PgPlanFails
    \/ PgSimulate
    \/ PgNextRound
    \/ PgReturn

SpecProgress == InitProgress /\ [][NextProgress]_vars

\* C34: after ProgressCalculate returns, the metasByMinTime of every group
\* passed to it is the same as before the call.
C34_GroupsUnchangedByProgressCalculate ==
    pgPc = "returned" =>
        \A k \in DOMAIN pgGroups : pgGroups[k].metasByMinTime = pgGroups0[k]

\* C35: whenever BucketCompactor.Compact has returned, every worker
\* goroutine it started has terminated.
C35_WorkersTerminatedAtReturn ==
    bpc = "done" => \A w \in Workers : wpc[w] = "exited"

(***************************************************************************)
(* The pass under fair scheduling: every goroutine that can take a step    *)
(* takes one eventually, and every call the pass makes returns             *)
(* (SyncMetas, GarbageCollect, Groups, Group.Compact with its repair or    *)
(* no-compact mark).                                                       *)
(***************************************************************************)
FairBC ==
    /\ WF_vars(PassStart)
    /\ WF_vars(PassSync)
    /\ WF_vars(PassGarbageCollect)
    /\ WF_vars(PassGroups)
    /\ WF_vars(SenderSkip)
    /\ WF_vars(SenderReceiveError \/ \E w \in Workers : Dispatch(w))
    /\ WF_vars(SenderClose)
    /\ \A w \in Workers : WF_vars(WorkerCompactReturns(w))
    /\ \A w \in Workers : WF_vars(WorkerPublish(w))
    /\ \A w \in Workers : WF_vars(WorkerExit(w))
    /\ WF_vars(PassEnd)

SpecBCFair == SpecBC /\ FairBC

ResultFailures ==
    {"remove tombstones", "read new meta", "invalid result block",
     "failed to finalize the block", "resulted compacted block overlaps with something",
     "upload failed", "failed to run post compaction callback for result block"}

ResultFailed == merged = "some" /\ Messages(cret.err) \cap ResultFailures # {}

\* every result block went through its upload
AllResultsUploaded ==
    /\ Len(uploads) = Len(compIDs)
    /\ \A i \in DOMAIN compIDs : uploads[i].ulid = compIDs[i]

\* C37: with a non-empty result, deleteBlock is called on a planned source
\* only when every result block has been uploaded and no callback has
\* failed; when the validation, the upload or the callback of a result
\* block fails, no source is marked.
C37_SourcesMarkedAfterAllResults ==
    merged = "some" =>
        /\ (cgDel # <<>> \/ cpc = "mark") => (AllResultsUploaded /\ ~ResultFailed)
        /\ ResultFailed => (cgDel = <<>> /\ MarkedThisCall = {} /\ cret.compIDs = <<>>)

\* two result blocks were uploaded and then a source was marked
C37_Witness ==
    /\ merged = "some"
    /\ Len(compIDs) = MaxResults
    /\ AllResultsUploaded
    /\ MarkedThisCall # {}
    /\ Len(toCompact) > 1

\* C38: within one pass no group is handed out twice: Group.Compact is
\* invoked at most once on each group, and the groups the workers are
\* compacting are distinct groups that were handed out in this pass.
C38_GroupCompactedAtMostOnce ==
    /\ \A i, j \in DOMAIN bcInvoked : bcInvoked[i] = bcInvoked[j] => i = j
    /\ \A v, w \in Workers :
          (wpc[v] = "compacting" /\ wpc[w] = "compacting" /\ wgrp[v] = wgrp[w]) => v = w
    /\ \A w \in Workers :
          wpc[w] = "compacting" => wgrp[w] \in Range(bcInvoked) /\ wgrp[w] < gi

\* the first worker failed on the first group and has published its error;
\* the sender still handed the second group to the other worker
C38_Witness ==
    /\ bcInvoked = <<1, 2>>
    /\ wpc[1] = "exited"
    /\ Len(errChan) = 1
    /\ wpc[2] = "compacting"
    /\ wgrp[2] = 2

(***************************************************************************)
(* Group.Compact for every compactBlocksFetchConcurrency NewGroup accepts  *)
(***************************************************************************)
InitGroupFetch ==
    GroupFetchInit /\ SyncerInit /\ SyncInit /\ GCOff /\ GrouperOff /\ BCOff /\ PureOff

SpecGroupFetch == InitGroupFetch /\ [][NextGroup]_vars

\* C39: the download phase runs at most compactBlocksFetchConcurrency
\* downloads at a time, and while it lasts one of its steps can be taken:
\* a task can be started, a running task can end, or g.Wait() can return.
C39_DownloadsBoundedAndFinish ==
    /\ dlRunning # {} => Cardinality(dlRunning) <= compactBlocksFetchConcurrency
    /\ cpc = "download" => ENABLED (DownloadGo \/ DownloadDone \/ DownloadWait)

\* compact is at its first g.Go with a limit of zero: no task runs, none
\* can be started, and cg.mtx is held
C39_DownloadStuck ==
    /\ cpc = "download"
    /\ compactBlocksFetchConcurrency = 0
    /\ dlTodo # <<>>
    /\ dlRunning = {}
    /\ cgMtx
    /\ ~ENABLED NextGroup

(***************************************************************************)
(* The halt and retry classes of one error, single or multi-error          *)
(***************************************************************************)
\* most constructors (halt, retry, errors.Wrap) around a base error
MaxErrDepth == 2

\* most members of a multi-error
MaxClMembers == 2

BaseErrors ==
    {NewErr("plain"), issue347Error(NewErr("i347"), 1), outOfOrderChunkError(NewErr("ooo"), 1)}

\* the errors made of the errors es by one more constructor
OneMore(es) == {halt(e) : e \in es} \cup {retry(e) : e \in es} \cup {Wrap(e, "w") : e \in es}

RECURSIVE ErrorsUpTo(_)
ErrorsUpTo(d) ==
    IF d = 0 THEN BaseErrors ELSE ErrorsUpTo(d - 1) \cup OneMore(ErrorsUpTo(d - 1))

SingleErrors == ErrorsUpTo(MaxErrDepth)

\* what MultiError.Err() returns for one or more members, built as the
\* members are built in this package, and that error inside one more
\* constructor
MultiErrors ==
    LET ms == UNION {[1 .. n -> {k.err : k \in MemberKinds}] : n \in 1 .. MaxClMembers}
        roots == {MultiErr(m) : m \in ms}
    IN roots \cup OneMore(roots)

ErrClassInit ==
    /\ clErr \in SingleErrors \cup MultiErrors
    /\ clPc = {}
    /\ clHalt = FALSE
    /\ clRetry = FALSE
    /\ clRetried = NoErr

\* IsHaltError(err)
ClHalt ==
    /\ clErr # NoErr
    /\ "IsHaltError" \notin clPc
    /\ clHalt' = IsHaltError(clErr)
    /\ clPc' = clPc \cup {"IsHaltError"}
    /\ UNCHANGED <<clErr, clRetry, clRetried>>
    /\ UNCHANGED errClassFrame

\* IsRetryError(err)
ClRetry ==
    /\ clErr # NoErr
    /\ "IsRetryError" \notin clPc
    /\ clRetry' = IsRetryError(clErr)
    /\ clPc' = clPc \cup {"IsRetryError"}
    /\ UNCHANGED <<clErr, clHalt, clRetried>>
    /\ UNCHANGED errClassFrame

\* retry(err)
ClRetried ==
    /\ clErr # NoErr
    /\ "retry" \notin clPc
    /\ clRetried' = retry(clErr)
    /\ clPc' = clPc \cup {"retry"}
    /\ UNCHANGED <<clErr, clHalt, clRetry>>
    /\ UNCHANGED errClassFrame

InitErrClass ==
    ErrClassInit /\ CoreOff /\ MutexOff /\ RepairOff /\ FilterOff /\ ProgressOff

NextErrClass ==
    \/ ClHalt
    \/ ClRetry
    \/ ClRetried

SpecErrClass == InitErrClass /\ [][NextErrClass]_vars

\* C40: IsHaltError and IsRetryError are never both true of an error, and
\* retry hands a halt-class error back as it is (and makes a retry-class
\* error of any other).
C40_NeverHaltAndRetry ==
    /\ {"IsHaltError", "IsRetryError"} \subseteq clPc => ~(clHalt /\ clRetry)
    /\ {"IsHaltError", "retry"} \subseteq clPc =>
          /\ clHalt => clRetried = clErr
          /\ ~clHalt => (IsRetryError(clRetried) /\ ~IsHaltError(clRetried))

\* a wrapped multi-error with a halt member and a retry member: halt-class,
\* not retry-class, and retry left it as it was
C40_Witness ==
    /\ clPc = {"IsHaltError", "IsRetryError", "retry"}
    /\ CauseType(clErr) = "multi"
    /\ clErr.layers[1].t = "wrap"
    /\ Len(clErr.members) = 2
    /\ CauseType(clErr.members[1]) = "halt"
    /\ CauseType(clErr.members[2]) = "retry"
    /\ clHalt
    /\ ~clRetry
    /\ clRetried = clErr

=============================================================================
